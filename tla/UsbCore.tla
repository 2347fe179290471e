------------------------------- MODULE UsbCore -------------------------------
(***************************************************************************)
(* The USB core of the firmware: USB_Send filling the banks of the IN      *)
(* endpoints from loop(), against the two USB interrupts, which share the  *)
(* endpoint register UENUM with it and flush, reset or enable endpoints    *)
(* under it; and the control line of the serial interface (CDC), whose     *)
(* 1200 bps touch arms the watchdog that RESTART uses as well.             *)
(*                                                                         *)
(* A byte is a pair: the send it belongs to and its place in it.  An       *)
(* access of an endpoint's registers goes to the endpoint UENUM names at   *)
(* that moment.                                                            *)
(***************************************************************************)
EXTENDS Naturals, Sequences, SequencesExt, FiniteSets

CONSTANTS
  Reports,     \* the HID IN endpoints
  Serial,      \* CDC_TX
  Control,     \* endpoint 0
  LastEp,        \* the endpoint InitEndpoints selects last
  ReportLen,   \* bytes of the report of each HID endpoint
  WriteLens,   \* bound on the bytes of one Serial.write
  EpSize,      \* USB_EP_SIZE: 64
  Banks,       \* EP_DOUBLE_64: 2
  Timeout,     \* attempts to find a bank: 250
  NewBoot,     \* isLUFAbootloader()
  LineStates,  \* values of wValueL in SET_CONTROL_LINE_STATE
  MaxSends,    \* bound on the number of sends
  MaxLines,    \* bound on the number of SET_CONTROL_LINE_STATE requests
  MaxResets    \* bound on the number of bus resets

Endpoints == Reports \cup {Serial}

ASSUME CoreAssumption ==
  /\ Serial \notin Reports /\ Control \notin Endpoints
  /\ LastEp \in Endpoints
  /\ EpSize \in Nat \ {0} /\ Banks \in Nat \ {0} /\ Timeout \in Nat \ {0}
  /\ ReportLen \in [Reports -> 1..EpSize]
  /\ WriteLens \subseteq Nat \ {0}
  /\ NewBoot \in BOOLEAN
  /\ LineStates \subseteq 0..3
  /\ MaxSends \in Nat /\ MaxLines \in Nat /\ MaxResets \in Nat

VARIABLES
  uenum,       \* UENUM
  irq,         \* the I bit of SREG in loop()
  bank,        \* per endpoint: the bytes in the bank the CPU fills
  queued,      \* per endpoint: released banks, oldest first
  enabled,     \* endpoints are initialised since the last bus reset
  configured,  \* _usbConfiguration
  resets,      \* number of bus resets so far
  pc,          \* loop(): "idle", "space", "count", "load", "fill", "spin"
  job,         \* the USB_Send under way: endpoint, bytes left, sendZlp, timeout, n
  sends,       \* number of sends so far
  rate1200,    \* _usbLineInfo.dwDTERate is 1200
  lineState,   \* _usbLineInfo.lineState
  word,        \* the word at magic_key_pos: "data", "key", "zero"
  backup,      \* the word at RAMEND-1 of an old bootloader
  WDTCSR,      \* the watchdog: "off", "15ms", "120ms"
  wdtcsr_save,
  lines,       \* number of SET_CONTROL_LINE_STATE requests so far
  loaded,      \* history: bytes loaded into each endpoint since it was reset
  got,         \* history: packets the host took from each endpoint since then
  again        \* history: a touch was repeated, or came before a RESTART

fifo == <<bank, queued>>
send == <<pc, job, sends>>
line == <<rate1200, lineState, word, backup, WDTCSR, wdtcsr_save, lines, again>>
state == <<enabled, configured, resets>>
seen == <<loaded, got>>
vars == <<uenum, irq, fifo, send, line, state, seen>>

NoJob == [ep |-> Serial, rest |-> <<>>, zlp |-> FALSE, tries |-> Timeout, n |-> 0]
Empty == [e \in Endpoints \cup {Control} |-> <<>>]

(* RWAL: a bank is free and not full.  Endpoint 0 is not one USB_Send may   *)
(* find selected.                                                           *)
BankFree(e) == enabled /\ Len(queued[e]) < Banks
ReadWriteAllowed(e) == BankFree(e) /\ Len(bank[e]) < EpSize

-----------------------------------------------------------------------------
(* USB_Send, in loop(). *)

Start(e, bytes) ==
  /\ pc = "idle" /\ configured /\ sends < MaxSends
  /\ pc' = "space"
  /\ job' = [NoJob EXCEPT !.ep = e, !.rest = bytes]
  /\ sends' = sends + 1
  /\ UNCHANGED <<uenum, irq, fifo, line, state, seen>>

(* BootKeyboard_::send, HID_::SendReport, RawHID_::write *)
SendReport(e) == Start(e, [i \in 1..ReportLen[e] |-> <<sends + 1, i>>])

(* Serial_::write, to a port the host has opened *)
SerialWrite(n) == lineState > 0 /\ Start(Serial, [i \in 1..n |-> <<sends + 1, i>>])

(* Mutant: interrupts stay enabled. *)
LockEPMutant(e) == uenum' = e /\ UNCHANGED irq

(* LockEP: the constructor disables interrupts and selects the endpoint,    *)
(* the destructor restores SREG.                                            *)
LockEP(e) == irq' = FALSE /\ uenum' = e
UnlockEP == irq' = TRUE /\ UNCHANGED uenum

LockForSpace ==
  /\ pc = "space" /\ LockEP(job.ep) /\ pc' = "count"
  /\ UNCHANGED <<fifo, job, sends, line, state, seen>>

(* Mutant: the wait for a bank has no limit. *)
NoSpaceMutant == pc' = "space" /\ UNCHANGED job

(* No room: another attempt a millisecond later, or the send is given up    *)
(* with what it has loaded so far.                                          *)
NoSpace ==
  IF job.tries = 1
  THEN pc' = "idle" /\ job' = NoJob
  ELSE pc' = "space" /\ job' = [job EXCEPT !.tries = @ - 1]

(* USB_SendSpace *)
CountSpace ==
  /\ pc = "count" /\ UnlockEP
  /\ IF ReadWriteAllowed(uenum)
     THEN /\ job' = [job EXCEPT !.n = LET room == EpSize - Len(bank[uenum])
                                      IN IF room > Len(job.rest) THEN Len(job.rest) ELSE room]
          /\ pc' = "load"
     ELSE NoSpace
  /\ UNCHANGED <<fifo, sends, line, state, seen>>

LockForLoad ==
  /\ pc = "load" /\ LockEP(job.ep) /\ pc' = "fill"
  /\ UNCHANGED <<fifo, job, sends, line, state, seen>>

(* ReleaseTX hands the bank to the controller, if there is one to hand.     *)
ReleaseTX(e, bytes) ==
  /\ queued' = [queued EXCEPT ![e] = Append(@, bytes)]
  /\ bank' = [bank EXCEPT ![e] = <<>>]

(* Mutant: the bank found a moment ago is not checked again. *)
StillWritableMutant(e) == TRUE

StillWritable(e) == ReadWriteAllowed(e)

(* Mutant: the chunk is counted as sent before the bank is checked. *)
FillRefusedMutant ==
  /\ pc = "fill" /\ ~StillWritable(uenum)
  /\ UnlockEP /\ pc' = "space"
  /\ job' = [job EXCEPT !.rest = SubSeq(@, job.n + 1, Len(@))]
  /\ UNCHANGED <<fifo, sends, line, state, seen>>

(* The frame was released under the send, or the endpoint was reset. *)
FillRefused ==
  /\ pc = "fill" /\ ~StillWritable(uenum)
  /\ UnlockEP /\ pc' = "space"
  /\ UNCHANGED <<fifo, job, sends, line, state, seen>>

(* Mutant: TRANSFER_RELEASE is not looked at. *)
ReleasesMutant(full, rest) == job.zlp \/ full

Releases(full, rest) == job.zlp \/ full \/ (rest = <<>> /\ job.ep # Serial)

(* The next chunk goes into the bank.  A bank that got full is released; if *)
(* it held the end of the data, an empty one has to follow.                 *)
Fill ==
  /\ pc = "fill" /\ StillWritable(uenum)
  /\ UnlockEP
  /\ LET chunk == SubSeq(job.rest, 1, job.n)
         rest  == SubSeq(job.rest, job.n + 1, Len(job.rest))
         bytes == bank[uenum] \o chunk
         full  == Len(bytes) = EpSize
         zlp   == ~job.zlp /\ full /\ rest = <<>>
     IN /\ IF Releases(full, rest)
           THEN ReleaseTX(uenum, bytes)
           ELSE bank' = [bank EXCEPT ![uenum] = bytes] /\ UNCHANGED queued
        /\ loaded' = [loaded EXCEPT ![job.ep] = @ \o chunk]
        /\ IF rest = <<>> /\ ~zlp
           THEN pc' = "idle" /\ job' = NoJob
           ELSE pc' = "space" /\ job' = [job EXCEPT !.rest = rest, !.zlp = zlp, !.n = 0]
  /\ UNCHANGED <<sends, line, state, got>>

Sending == LockForSpace \/ CountSpace \/ LockForLoad \/ FillRefused \/ Fill

-----------------------------------------------------------------------------
(* The interrupts: between any two steps of loop() with interrupts enabled. *)

Interrupt == irq

(* USB_Flush *)
UsbFlush(e) ==
  IF BankFree(e) /\ bank[e] # <<>> THEN ReleaseTX(e, bank[e]) ELSE UNCHANGED fifo

(* USB_GEN_vect, SOFI: UENUM is left at the serial endpoint. *)
StartOfFrame ==
  /\ Interrupt
  /\ uenum' = Serial /\ UsbFlush(Serial)
  /\ UNCHANGED <<irq, send, line, state, seen>>

Restarted == bank' = Empty /\ queued' = Empty /\ loaded' = Empty /\ got' = Empty

(* USB_GEN_vect, EORSTI *)
BusReset ==
  /\ Interrupt /\ enabled /\ resets < MaxResets
  /\ resets' = resets + 1
  /\ uenum' = Control /\ Restarted
  /\ enabled' = FALSE /\ configured' = FALSE
  /\ UNCHANGED <<irq, send, line>>

(* USB_COM_vect, SET_CONFIGURATION: InitEndpoints, then the configuration   *)
(* value, which may be 0.                                                   *)
SetConfiguration ==
  /\ Interrupt
  /\ uenum' = LastEp /\ Restarted
  /\ enabled' = TRUE /\ configured' \in BOOLEAN
  /\ UNCHANGED <<irq, send, line, resets>>

(* USB_COM_vect, a request that leaves the endpoints alone *)
ControlRequest ==
  /\ Interrupt
  /\ uenum' = Control
  /\ UNCHANGED <<irq, fifo, send, line, state, seen>>

(* CDC_Setup, SET_LINE_CODING *)
SetLineCoding ==
  /\ Interrupt
  /\ uenum' = Control
  /\ rate1200' = ~rate1200
  /\ UNCHANGED <<irq, fifo, send, lineState, word, backup, WDTCSR, wdtcsr_save, lines,
                 again, state, seen>>

Dtr(s) == s % 2 = 1

(* Mutant: the word is backed up although the key is there already. *)
BackupMutant == backup' = IF NewBoot THEN backup ELSE word

Backup == backup' = IF NewBoot \/ word = "key" THEN backup ELSE word

(* The port, at 1200 bps, is closed: boot key and watchdog. *)
Touch ==
  /\ Backup
  /\ word' = "key"
  /\ wdtcsr_save' = WDTCSR /\ WDTCSR' = "120ms"
  /\ again' = (again \/ word = "key")

(* Mutants: the watchdog goes on; the key stays. *)
CancelKeepsKey == WDTCSR' = wdtcsr_save /\ UNCHANGED <<word, backup, wdtcsr_save, again>>

CancelMutant ==
  /\ word' = IF NewBoot THEN "zero" ELSE backup
  /\ UNCHANGED <<backup, wdtcsr_save, WDTCSR, again>>

(* A touch is taken back. *)
Cancel ==
  /\ WDTCSR' = wdtcsr_save
  /\ word' = IF NewBoot THEN "zero" ELSE backup
  /\ UNCHANGED <<backup, wdtcsr_save, again>>

(* CDC_Setup, SET_CONTROL_LINE_STATE *)
SetControlLineState(s) ==
  /\ Interrupt /\ lines < MaxLines
  /\ uenum' = Control
  /\ lineState' = s /\ lines' = lines + 1
  /\ \/ rate1200 /\ ~Dtr(s) /\ Touch
     \/ ~(rate1200 /\ ~Dtr(s)) /\ word = "key" /\ Cancel
     \/ ~(rate1200 /\ ~Dtr(s)) /\ word # "key"
        /\ UNCHANGED <<word, backup, WDTCSR, wdtcsr_save, again>>
  /\ UNCHANGED <<irq, fifo, send, rate1200, state, seen>>

-----------------------------------------------------------------------------
(* Mutant: the watchdog is not armed. *)
SoftResetMutant ==
  /\ pc = "idle"
  /\ pc' = "spin" /\ again' = (again \/ word = "key")
  /\ UNCHANGED <<uenum, irq, fifo, job, sends, rate1200, lineState, word, backup, WDTCSR,
                 wdtcsr_save, lines, state, seen>>

(* FuncProcess, RESTART and DISCONNECT: soft_reset, after the reply *)
SoftReset ==
  /\ pc = "idle"
  /\ WDTCSR' = "15ms" /\ pc' = "spin"
  /\ again' = (again \/ word = "key")
  /\ UNCHANGED <<uenum, irq, fifo, job, sends, rate1200, lineState, word, backup,
                 wdtcsr_save, lines, state, seen>>

(* The watchdog resets the controller; the bootloader takes the key, turns  *)
(* the watchdog off and starts the firmware.                                *)
WatchdogBites ==
  /\ WDTCSR # "off"
  /\ uenum' = Control /\ irq' = TRUE /\ Restarted
  /\ enabled' = FALSE /\ configured' = FALSE
  /\ pc' = "idle" /\ job' = NoJob
  /\ rate1200' = FALSE /\ lineState' = 0
  /\ word' = "data" /\ WDTCSR' = "off" /\ wdtcsr_save' = "off" /\ backup' = "zero"
  /\ again' = FALSE
  /\ UNCHANGED <<sends, lines, resets>>

(* The host takes a packet. *)
HostTakes(e) ==
  /\ configured /\ queued[e] # <<>>
  /\ got' = [got EXCEPT ![e] = Append(@, Head(queued[e]))]
  /\ queued' = [queued EXCEPT ![e] = Tail(@)]
  /\ UNCHANGED <<uenum, irq, bank, send, line, state, loaded>>

Init ==
  /\ uenum = Control /\ irq = TRUE
  /\ bank = Empty /\ queued = Empty /\ loaded = Empty /\ got = Empty
  /\ enabled = FALSE /\ configured = FALSE /\ resets = 0
  /\ pc = "idle" /\ job = NoJob /\ sends = 0
  /\ rate1200 = FALSE /\ lineState = 0 /\ lines = 0
  /\ word = "data" /\ backup = "zero" /\ WDTCSR = "off" /\ wdtcsr_save = "off"
  /\ again = FALSE

Next ==
  \/ \E e \in Reports : SendReport(e)
  \/ \E n \in WriteLens : SerialWrite(n)
  \/ Sending
  \/ StartOfFrame \/ BusReset \/ SetConfiguration \/ ControlRequest
  \/ SetLineCoding \/ \E s \in LineStates : SetControlLineState(s)
  \/ SoftReset \/ WatchdogBites
  \/ \E e \in Endpoints : HostTakes(e)

Spec == Init /\ [][Next]_vars

(* loop() runs and an armed watchdog bites: the host sends finitely many    *)
(* requests that restart it.  The host need not take anything.              *)
FairSpec == Spec /\ WF_vars(Sending) /\ WF_vars(WatchdogBites)

-----------------------------------------------------------------------------
(* Properties. *)

TypeOK ==
  /\ uenum \in Endpoints \cup {Control} /\ irq \in BOOLEAN
  /\ pc \in {"idle", "space", "count", "load", "fill", "spin"}
  /\ \A e \in Endpoints \cup {Control} :
       Len(queued[e]) + (IF bank[e] = <<>> THEN 0 ELSE 1) <= Banks /\ Len(bank[e]) < EpSize
  /\ enabled \in BOOLEAN /\ configured \in BOOLEAN
  /\ job.tries \in 1..Timeout /\ job.n \in 0..EpSize
  /\ word \in {"data", "key", "zero"} /\ backup \in {"data", "zero"}
  /\ WDTCSR \in {"off", "15ms", "120ms"} /\ wdtcsr_save \in {"off", "15ms", "120ms"}

(* However the interrupts move UENUM between the accesses of USB_Send, the  *)
(* bytes of each endpoint reach the host in the order in which they were    *)
(* sent to it: USB_Send implements a byte stream per endpoint.              *)
Streams == INSTANCE InEndpoints WITH
  written <- [e \in Endpoints |-> loaded[e]],
  read    <- [e \in Endpoints |-> FlattenSeq(got[e])]

ImplementsStreams == Streams!Spec

(* Every packet of a HID endpoint is one whole report or the empty packet   *)
(* after a full one, never parts of two; nothing of a report stays behind.  *)
ReportsWhole ==
  \A e \in Reports :
    /\ bank[e] = <<>>
    /\ \A i \in DOMAIN (got[e] \o queued[e]) :
         LET p == (got[e] \o queued[e])[i]
         IN p # <<>> => \E s \in 1..sends : p = [j \in 1..ReportLen[e] |-> <<s, j>>]

(* What arrives of a Serial.write between two resets of the endpoint has no *)
(* gap: a chunk whose bank was flushed away under it is sent again.         *)
NoGap ==
  \A i \in 2..Len(loaded[Serial]) :
    LET a == loaded[Serial][i - 1]
        b == loaded[Serial][i]
    IN b[1] = a[1] => b[2] = a[2] + 1

(* USB_Send returns, whatever the host does: it waits for a bank a bounded  *)
(* number of times, and a frame released under it does not make it wait     *)
(* for ever.                                                                *)
SendEnds == pc = "space" ~> pc = "idle"

(* As long as the host holds DTR high, no boot key is left in memory, and   *)
(* the word of the sketch it had replaced is back.                          *)
TouchUndone ==
  Dtr(lineState) => word \in (IF NewBoot THEN {"data", "zero"} ELSE {"data"})

(* A boot key in memory always comes with an armed watchdog: no later crash *)
(* of the sketch ends up in the bootloader.                                 *)
KeyIsArmed == word = "key" => WDTCSR # "off"

(* A touch that was not repeated is taken back by DTR going high.           *)
TouchCancelled == Dtr(lineState) /\ pc # "spin" /\ ~again => WDTCSR = "off"

(* A RESTART that met no pending touch ends in a restart.                   *)
RestartHappens == pc = "spin" /\ ~again ~> pc = "idle"

=============================================================================
