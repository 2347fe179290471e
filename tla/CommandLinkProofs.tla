-------------------------- MODULE CommandLinkProofs --------------------------
(***************************************************************************)
(* Proofs about CommandLink, for any set of threads, any number of calls,  *)
(* ring buffers and endpoint banks, and any set of refused commands.       *)
(***************************************************************************)
EXTENDS CommandLink, SequenceTheorems, TLAPS

-----------------------------------------------------------------------------
(* Types.                                                                   *)

LEMMA RingTyped ==
  ASSUME ring \in Seq(Nat), Len(ring) <= RingSize, NEW r \in Nat
  PROVE  LET new == Append(IF Len(ring) < RingSize THEN ring ELSE Tail(ring), r)
         IN new \in Seq(Nat) /\ Len(new) <= RingSize
<1>1. Len(ring) \in Nat /\ RingSize \in Nat \ {0}
  BY LenProperties, LinkAssumption
<1>2. CASE Len(ring) < RingSize
  BY <1>1, <1>2, AppendProperties
<1>3. CASE ~(Len(ring) < RingSize)
  <2>1. ring # <<>>
    BY <1>1, <1>3, EmptySeq
  <2>2. Tail(ring) \in Seq(Nat) /\ Len(Tail(ring)) = Len(ring) - 1
    BY <2>1, HeadTailProperties
  <2> QED
    BY <1>1, <1>3, <2>2, AppendProperties
<1> QED
  BY <1>2, <1>3

LEMMA BankTyped ==
  ASSUME banks \in Seq(Nat), Len(banks) < Banks, NEW p \in Nat
  PROVE  Append(banks, p) \in Seq(Nat) /\ Len(Append(banks, p)) <= Banks
BY LenProperties, AppendProperties, LinkAssumption

LEMMA QueueTyped ==
  ASSUME NEW q \in Seq(Nat), q # <<>>
  PROVE  Head(q) \in Nat /\ Tail(q) \in Seq(Nat) /\ Len(Tail(q)) = Len(q) - 1 /\ Len(q) \in Nat
BY HeadTailProperties, LenProperties

LEMMA EmptyFits ==
  <<>> \in Seq(Nat) /\ Len(<<>>) <= RingSize /\ Len(<<>>) <= Banks
BY EmptySeq, LinkAssumption

LEMMA InitTyped == Init => TypeOK
<1> SUFFICES ASSUME Init PROVE TypeOK
  OBVIOUS
<1>1. /\ writeIrps \in Seq(Nat)
      /\ ring \in Seq(Nat) /\ Len(ring) <= RingSize
      /\ banks \in Seq(Nat) /\ Len(banks) <= Banks
  BY EmptyFits DEF Init
<1> QED
  BY <1>1 DEF Init, TypeOK, Locations, Zero

LEMMA NewHidDeviceTyped ==
  ASSUME NewHidDevice
  PROVE  /\ ev' \in BOOLEAN /\ ol' \in {"idle", "pending", "done", "failed"}
         /\ read_pending' \in BOOLEAN /\ read_buf' \in Nat /\ readIrps' \in Nat
         /\ writeIrps' \in Seq(Nat) /\ ring' \in Seq(Nat) /\ Len(ring') <= RingSize
<1>1. writeIrps' = <<>> /\ ring' = <<>>
  BY DEF NewHidDevice
<1>2. writeIrps' \in Seq(Nat) /\ ring' \in Seq(Nat) /\ Len(ring') <= RingSize
  BY <1>1, EmptyFits
<1> QED
  BY <1>2 DEF NewHidDevice, Zero

LEMMA DieTyped ==
  ASSUME TypeOK, Die
  PROVE  TypeOK'
<1>1. NewHidDevice
  BY DEF Die
<1>2. pc' \in [Threads -> Locations] /\ okay' \in [Threads -> BOOLEAN] /\ result' \in [Slots -> Nat]
  BY DEF Die, Locations, Zero
<1>3. abandoned' \in BOOLEAN
  BY DEF Die
<1> QED
  BY <1>1, <1>2, <1>3, NewHidDeviceTyped DEF Die, devVars, TypeOK

(* The steps of the host, one by one.                                       *)
LEMMA HostTyped ==
  ASSUME TypeOK, NEW t \in Threads,
         \/ OpenDevice(t) \/ CloseDevice(t)
         \/ \E k \in {"verdict", "value"} : Call(t, k)
         \/ ThreadStep(t)
  PROVE  TypeOK'
<1>1. CASE OpenDevice(t)
  <2>1. NewHidDevice /\ abandoned' \in BOOLEAN
    BY <1>1 DEF OpenDevice
  <2> QED
    BY <1>1, <2>1, NewHidDeviceTyped DEF OpenDevice, hostVars, devVars, TypeOK
<1>2. CASE CloseDevice(t)
  <2>1. NewHidDevice
    BY <1>2 DEF CloseDevice
  <2> QED
    BY <1>2, <2>1, NewHidDeviceTyped DEF CloseDevice, hostVars, devVars, TypeOK
<1>3. CASE \E k \in {"verdict", "value"} : Call(t, k)
  BY <1>3 DEF Call, Goto, hidVars, drvVars, devVars, TypeOK, Locations
<1>4. CASE Clear(t)
  BY <1>4 DEF Clear, Goto, hidVars, drvVars, devVars, TypeOK, Locations, Zero, Slots
<1>5. CASE Enter(t)
  BY <1>5 DEF Enter, Goto, hidVars, drvVars, devVars, TypeOK, Locations
<1>6. CASE StartWrite(t)
  <2>1. writeIrps' \in Seq(Nat)
    BY <1>6, AppendProperties DEF StartWrite, TypeOK
  <2> QED
    BY <1>6, <2>1 DEF StartWrite, Goto, devVars, TypeOK, Locations
<1>7. CASE FailWrite(t)
  BY <1>7 DEF FailWrite, Goto, drvVars, devVars, TypeOK, Locations
<1>8. CASE EndWrite(t)
  BY <1>8 DEF EndWrite, Goto, hidVars, drvVars, devVars, TypeOK, Locations
<1>9. CASE WriteTimeout(t)
  BY <1>9 DEF WriteTimeout, Goto, hidVars, drvVars, devVars, TypeOK, Locations
<1>10. CASE StartRead(t)
  <2>1. /\ read_pending' \in BOOLEAN /\ read_buf' \in Nat /\ ol' \in {"idle", "pending", "done", "failed"}
        /\ ev' \in BOOLEAN /\ readIrps' \in Nat /\ ring' \in Seq(Nat) /\ Len(ring') <= RingSize
    <3>1. CASE read_pending
      BY <1>10, <3>1 DEF StartRead, hidVars, TypeOK
    <3>2. CASE ~read_pending /\ ring # <<>>
      <4>1. Head(ring) \in Nat /\ Tail(ring) \in Seq(Nat) /\ Len(Tail(ring)) = Len(ring) - 1
              /\ Len(ring) \in Nat
        BY <3>2, QueueTyped DEF TypeOK
      <4>2. /\ read_pending' = TRUE /\ read_buf' = Head(ring) /\ ring' = Tail(ring)
            /\ ol' = "done" /\ ev' = TRUE /\ readIrps' = readIrps
        BY <1>10, <3>2 DEF StartRead
      <4> QED
        BY <4>1, <4>2, LinkAssumption DEF TypeOK
    <3>3. CASE ~read_pending /\ ring = <<>>
      <4>1. /\ read_pending' = TRUE /\ read_buf' = Zero /\ readIrps' = readIrps + 1
            /\ ol' = "pending" /\ ev' = FALSE /\ ring' = ring
        BY <1>10, <3>3 DEF StartRead
      <4>2. readIrps' \in Nat /\ read_buf' \in Nat
        BY <4>1 DEF TypeOK, Zero
      <4>3. ring' \in Seq(Nat) /\ Len(ring') <= RingSize
        BY <4>1 DEF TypeOK
      <4> QED
        BY <4>1, <4>2, <4>3
    <3> QED
      BY <3>1, <3>2, <3>3
  <2> QED
    BY <1>10, <2>1 DEF StartRead, Goto, devVars, TypeOK, Locations
<1>11. CASE FailRead(t)
  BY <1>11 DEF FailRead, Goto, drvVars, devVars, TypeOK, Locations, Zero
<1>12. CASE EndRead(t)
  <2>1. result' \in [Slots -> Nat]
    BY <1>12 DEF EndRead, TypeOK
  <2>2. /\ read_pending' \in BOOLEAN
        /\ pc' \in [Threads -> Locations] /\ okay' \in [Threads -> BOOLEAN]
    BY <1>12 DEF EndRead, Goto, TypeOK, Locations
  <2>3. /\ UNCHANGED <<g_mutex, kind, req, issued, handle, ev, ol, read_buf>>
        /\ UNCHANGED <<readIrps, writeIrps, ring, executed, abandoned>>
        /\ UNCHANGED devVars
    BY <1>12 DEF EndRead, drvVars
  <2> QED
    BY <2>1, <2>2, <2>3 DEF devVars, TypeOK
<1>13. CASE ReadTimeout(t)
  BY <1>13 DEF ReadTimeout, Goto, hidVars, drvVars, devVars, TypeOK, Locations
<1>14. CASE Leave(t)
  BY <1>14 DEF Leave, Goto, hidVars, drvVars, devVars, TypeOK, Locations
<1>15. CASE Return(t)
  <2>1. /\ pc' \in [Threads -> Locations] /\ kind' \in [Threads -> {"verdict", "value"}]
        /\ req' \in [Threads -> Nat] /\ okay' \in [Threads -> BOOLEAN]
    BY <1>15 DEF Return, Goto, TypeOK, Locations
  <2>2. result' \in [Slots -> Nat]
    BY <1>15 DEF Return, TypeOK, Zero
  <2> QED
    BY <1>15, <2>1, <2>2 DEF Return, hidVars, drvVars, devVars, TypeOK
<1>16. CASE NullHandle(t)
  BY <1>16, DieTyped DEF NullHandle
<1> QED
  BY <1>1, <1>2, <1>3, <1>4, <1>5, <1>6, <1>7, <1>8, <1>9, <1>10, <1>11, <1>12,
     <1>13, <1>14, <1>15, <1>16 DEF ThreadStep

(* The steps of the driver and the device.                                  *)
DeviceStep ==
  \/ SetReport \/ InReport \/ FwRead \/ FwExecute \/ FwSend \/ FwSendZlp
  \/ DeviceReset \/ BusReset \/ Configure

LEMMA FailRequestsTyped ==
  ASSUME TypeOK, FailRequests
  PROVE  /\ readIrps' \in Nat /\ writeIrps' \in Seq(Nat)
         /\ ev' \in BOOLEAN /\ ol' \in {"idle", "pending", "done", "failed"}
<1>1. writeIrps' \in Seq(Nat)
  BY EmptyFits DEF FailRequests
<1> QED
  BY <1>1 DEF FailRequests, TypeOK

LEMMA DeviceTyped ==
  ASSUME TypeOK, DeviceStep
  PROVE  TypeOK'
<1>1. CASE SetReport
  <2>1. Head(writeIrps) \in Nat /\ Tail(writeIrps) \in Seq(Nat)
    BY <1>1, QueueTyped DEF SetReport, TypeOK
  <2> QED
    BY <1>1, <2>1 DEF SetReport, hostVars, TypeOK
<1>2. CASE InReport
  <2>1. /\ Head(banks) \in Nat /\ Tail(banks) \in Seq(Nat)
        /\ Len(Tail(banks)) = Len(banks) - 1 /\ Len(banks) \in Nat
    BY <1>2, QueueTyped DEF InReport, TypeOK
  <2>2. banks' \in Seq(Nat) /\ Len(banks') <= Banks
    BY <1>2, <2>1, LinkAssumption DEF InReport, TypeOK
  <2>3. ring' \in Seq(Nat) /\ Len(ring') <= RingSize
    <3>1. CASE ring' = ring
      BY <3>1 DEF TypeOK
    <3>2. CASE ring' = Append(IF Len(ring) < RingSize THEN ring ELSE Tail(ring), Head(banks))
      BY <2>1, <3>2, RingTyped DEF TypeOK
    <3> QED
      BY <1>2, <3>1, <3>2 DEF InReport
  <2>4. /\ readIrps' \in Nat /\ read_buf' \in Nat /\ ev' \in BOOLEAN
        /\ ol' \in {"idle", "pending", "done", "failed"}
    <3>1. CASE Head(banks) # Zlp /\ readIrps > 0
      <4>1. /\ readIrps' = readIrps - 1 /\ read_buf' = Head(banks)
            /\ ol' = "done" /\ ev' = TRUE
        BY <1>2, <3>1 DEF InReport
      <4> QED
        BY <2>1, <3>1, <4>1 DEF TypeOK
    <3>2. CASE UNCHANGED <<readIrps, read_buf, ol, ev>>
      BY <3>2 DEF TypeOK
    <3> QED
      BY <1>2, <3>1, <3>2 DEF InReport
  <2> QED
    BY <1>2, <2>2, <2>3, <2>4 DEF InReport, hostVars, TypeOK
<1>3. CASE FwRead
  BY <1>3 DEF FwRead, hostVars, hidVars, drvVars, TypeOK
<1>4. CASE FwExecute
  BY <1>4 DEF FwExecute, hostVars, hidVars, drvVars, TypeOK, Zero
<1>5. CASE FwSend
  <2>1. banks' \in Seq(Nat) /\ Len(banks') <= Banks
    BY <1>5, BankTyped DEF FwSend, BankFree, TypeOK
  <2> QED
    BY <1>5, <2>1 DEF FwSend, hostVars, hidVars, drvVars, TypeOK
<1>6. CASE FwSendZlp
  <2>1. banks' \in Seq(Nat) /\ Len(banks') <= Banks
    BY <1>6, BankTyped DEF FwSendZlp, BankFree, TypeOK, Zlp
  <2> QED
    BY <1>6, <2>1 DEF FwSendZlp, hostVars, hidVars, drvVars, TypeOK
<1>7. CASE DeviceReset
  <2>1. banks' \in Seq(Nat) /\ Len(banks') <= Banks /\ FailRequests
    BY <1>7, EmptyFits DEF DeviceReset
  <2> QED
    BY <1>7, <2>1, FailRequestsTyped DEF DeviceReset, hostVars, TypeOK, Zero
<1>8. CASE BusReset
  <2>1. banks' \in Seq(Nat) /\ Len(banks') <= Banks /\ FailRequests
    BY <1>8, EmptyFits DEF BusReset
  <2>2. handle' \in {"closed", "open", "dead"} /\ abandoned' \in BOOLEAN
    BY <1>8 DEF BusReset, TypeOK
  <2> QED
    BY <1>8, <2>1, <2>2, FailRequestsTyped DEF BusReset, hostVars, TypeOK
<1>9. CASE Configure
  <2>1. banks' \in Seq(Nat) /\ Len(banks') <= Banks
    BY <1>9, EmptyFits DEF Configure
  <2> QED
    BY <1>9, <2>1 DEF Configure, hostVars, hidVars, drvVars, TypeOK
<1> QED
  BY <1>1, <1>2, <1>3, <1>4, <1>5, <1>6, <1>7, <1>8, <1>9 DEF DeviceStep

LEMMA StutterTyped ==
  ASSUME TypeOK, UNCHANGED vars
  PROVE  TypeOK'
BY DEF vars, hostVars, hidVars, drvVars, devVars, TypeOK

LEMMA NextTyped == TypeOK /\ [Next]_vars => TypeOK'
<1> SUFFICES ASSUME TypeOK, [Next]_vars PROVE TypeOK'
  OBVIOUS
<1> QED
  BY HostTyped, DeviceTyped, DieTyped, StutterTyped DEF Next, DeviceStep, Kill

(* Every variable of the host, the driver and the firmware keeps its shape; *)
(* the endpoint and the ring never hold more than they have room for.       *)
THEOREM TypeCorrect == Spec => []TypeOK
BY InitTyped, NextTyped, PTL DEF Spec

-----------------------------------------------------------------------------
(* The inductive invariant.  OneInFlight (what is in flight while no        *)
(* exchange was given up) carries the argument; to be inductive it needs    *)
(* to know who is in the critical section, that a command that was not yet  *)
(* written is known to nobody, that a dead handle has nothing behind it     *)
(* unless a bus reset left a command in the device, and that the endpoint   *)
(* is empty while the device is not configured.                             *)

LockHeld == \A t \in Threads : pc[t] \in Critical <=> g_mutex = t

Queued == {writeIrps[i] : i \in DOMAIN writeIrps}
Known == executed \cup {rawhidreadData, begun} \cup Queued

Fresh ==
  /\ Known \subseteq 0..issued
  /\ \A t \in Threads :
       /\ req[t] \in 0..issued
       /\ pc[t] # "idle" => req[t] # 0
       /\ pc[t] \in {"clear", "enter", "write"} =>
            /\ req[t] \notin Known
            /\ \A u \in Threads : u # t => req[u] # req[t]

DeadIsQuiet ==
  handle = "dead" => /\ writeIrps = <<>> /\ readIrps = 0
                     /\ DeviceQuiet \/ abandoned

EndpointEmpty == ~configured => banks = <<>>

IInv ==
  /\ TypeOK /\ LockHeld /\ Fresh /\ DeadIsQuiet /\ EndpointEmpty
  /\ OneInFlight /\ OwnAnswer /\ SuccessWasExecuted

-----------------------------------------------------------------------------
(* Who is in the critical section.                                          *)

LEMMA InitLock == Init => LockHeld
BY LinkAssumption DEF Init, LockHeld, Critical

LEMMA NextLock ==
  ASSUME TypeOK, LockHeld, [Next]_vars
  PROVE  LockHeld'
<1> USE DEF LockHeld, Critical, TypeOK, Goto
<1>1. ASSUME NEW t \in Threads, OpenDevice(t) \/ CloseDevice(t)
      PROVE  LockHeld'
  BY <1>1 DEF OpenDevice, CloseDevice, hostVars
<1>2. ASSUME NEW t \in Threads, \E k \in {"verdict", "value"} : Call(t, k)
      PROVE  LockHeld'
  BY <1>2 DEF Call
<1>3. ASSUME NEW t \in Threads, Clear(t) \/ Return(t)
      PROVE  LockHeld'
  BY <1>3 DEF Clear, Return
<1>4. ASSUME NEW t \in Threads, Enter(t)
      PROVE  LockHeld'
  BY <1>4, LinkAssumption DEF Enter
<1>5. ASSUME NEW t \in Threads,
             StartWrite(t) \/ FailWrite(t) \/ EndWrite(t) \/ WriteTimeout(t)
      PROVE  LockHeld'
  BY <1>5 DEF StartWrite, FailWrite, EndWrite, WriteTimeout
<1>6. ASSUME NEW t \in Threads,
             StartRead(t) \/ FailRead(t) \/ EndRead(t) \/ ReadTimeout(t)
      PROVE  LockHeld'
  BY <1>6 DEF StartRead, FailRead, EndRead, ReadTimeout
<1>7. ASSUME NEW t \in Threads, Leave(t)
      PROVE  LockHeld'
  BY <1>7, LinkAssumption DEF Leave
<1>8. ASSUME Die
      PROVE  LockHeld'
  BY <1>8, LinkAssumption DEF Die
<1>9. ASSUME DeviceStep \/ UNCHANGED vars
      PROVE  LockHeld'
  BY <1>9 DEF DeviceStep, SetReport, InReport, FwRead, FwExecute, FwSend, FwSendZlp,
              DeviceReset, BusReset, Configure, vars, hostVars
<1> QED
  BY <1>1, <1>2, <1>3, <1>4, <1>5, <1>6, <1>7, <1>8, <1>9
     DEF Next, ThreadStep, NullHandle, Kill, DeviceStep

-----------------------------------------------------------------------------
(* A command that was not yet written is known to nobody.                   *)

LEMMA QueuedAppend ==
  ASSUME writeIrps \in Seq(Nat), NEW c \in Nat, writeIrps' = Append(writeIrps, c)
  PROVE  Queued' = Queued \cup {c}
<1> DEFINE n == Len(writeIrps)
<1>1. n \in Nat /\ DOMAIN writeIrps = 1..n
  BY LenProperties
<1>2. /\ writeIrps' \in Seq(Nat) /\ Len(writeIrps') = n + 1
      /\ \A i \in 1..n : writeIrps'[i] = writeIrps[i]
      /\ writeIrps'[n + 1] = c
  BY AppendProperties
<1>3. DOMAIN writeIrps' = 1..n \cup {n + 1}
  BY <1>1, <1>2, LenProperties
<1> HIDE DEF n
<1> QED
  BY <1>1, <1>2, <1>3 DEF Queued

LEMMA QueuedTail ==
  ASSUME writeIrps \in Seq(Nat), writeIrps # <<>>, writeIrps' = Tail(writeIrps)
  PROVE  Queued' \subseteq Queued /\ Head(writeIrps) \in Queued
BY HeadTailProperties, LenProperties, EmptySeq DEF Queued

LEMMA QueuedEmpty ==
  ASSUME writeIrps' = <<>>
  PROVE  Queued' = {}
BY DEF Queued

LEMMA InitFresh == Init => Fresh
BY DEF Init, Fresh, Known, Queued, Zero

(* A step that makes nothing known but 0 or what was known keeps Fresh.     *)
LEMMA FreshKept ==
  ASSUME TypeOK, Fresh, Known' \subseteq Known \cup {0}, UNCHANGED issued,
         \A t \in Threads :
           /\ req'[t] \in {req[t], 0}
           /\ pc'[t] # "idle" => pc[t] # "idle" /\ req'[t] = req[t]
           /\ pc'[t] \in {"clear", "enter", "write"} => pc[t] \in {"clear", "enter", "write"}
  PROVE  Fresh'
<1>1. issued' = issued /\ issued \in Nat
  BY DEF TypeOK
<1>2. Known' \subseteq 0..issued'
  BY <1>1 DEF Fresh
<1>3. ASSUME NEW t \in Threads
      PROVE  /\ req'[t] \in 0..issued'
             /\ pc'[t] # "idle" => req'[t] # 0
             /\ pc'[t] \in {"clear", "enter", "write"} =>
                  /\ req'[t] \notin Known'
                  /\ \A u \in Threads : u # t => req'[u] # req'[t]
  BY <1>1, <1>3 DEF Fresh
<1> QED
  BY <1>2, <1>3 DEF Fresh

LEMMA HostFresh ==
  ASSUME TypeOK, Fresh, NEW t \in Threads,
         \/ OpenDevice(t) \/ CloseDevice(t)
         \/ \E k \in {"verdict", "value"} : Call(t, k)
         \/ ThreadStep(t)
  PROVE  Fresh'
<1>1. CASE OpenDevice(t) \/ CloseDevice(t)
  <2>1. Known' \subseteq Known
    BY <1>1, QueuedEmpty DEF OpenDevice, CloseDevice, NewHidDevice, devVars, Known
  <2> QED
    BY <1>1, <2>1, FreshKept DEF OpenDevice, CloseDevice, hostVars
<1>2. ASSUME NEW k \in {"verdict", "value"}, Call(t, k)
      PROVE  Fresh'
  <2>1. Known' = Known
    BY <1>2 DEF Call, Known, Queued, drvVars, devVars
  <2>2. issued \in Nat /\ issued' = issued + 1 /\ req' = [req EXCEPT ![t] = issued + 1]
    BY <1>2 DEF Call, TypeOK
  <2>3. \A u \in Threads : u # t => req'[u] = req[u] /\ pc'[u] = pc[u]
    BY <1>2 DEF Call, Goto, TypeOK
  <2>4. req'[t] = issued + 1
    BY <2>2 DEF TypeOK
  <2>5. Known' \subseteq 0..issued'
    BY <2>1, <2>2 DEF Fresh
  <2>6. ASSUME NEW u \in Threads
        PROVE  /\ req'[u] \in 0..issued'
               /\ pc'[u] # "idle" => req'[u] # 0
               /\ pc'[u] \in {"clear", "enter", "write"} =>
                    /\ req'[u] \notin Known'
                    /\ \A w \in Threads : w # u => req'[w] # req'[u]
    <3>1. CASE u = t
      BY <2>1, <2>2, <2>3, <2>4, <3>1 DEF Fresh
    <3>2. CASE u # t
      BY <2>1, <2>2, <2>3, <2>4, <3>2 DEF Fresh
    <3> QED
      BY <3>1, <3>2
  <2> QED
    BY <2>5, <2>6 DEF Fresh
<1>3. CASE StartWrite(t)
  <2>1. req[t] \in Nat /\ writeIrps' = Append(writeIrps, req[t])
    BY <1>3 DEF StartWrite, TypeOK
  <2>2. Known' = Known \cup {req[t]}
    BY <1>3, <2>1, QueuedAppend DEF StartWrite, devVars, Known, TypeOK
  <2>3. /\ req' = req /\ issued' = issued /\ pc[t] = "write" /\ pc'[t] = "waitWrite"
        /\ \A u \in Threads : u # t => pc'[u] = pc[u]
    BY <1>3 DEF StartWrite, Goto, TypeOK
  <2>4. Known' \subseteq 0..issued'
    BY <2>2, <2>3 DEF Fresh
  <2>5. ASSUME NEW u \in Threads
        PROVE  /\ req'[u] \in 0..issued'
               /\ pc'[u] # "idle" => req'[u] # 0
               /\ pc'[u] \in {"clear", "enter", "write"} =>
                    /\ req'[u] \notin Known'
                    /\ \A w \in Threads : w # u => req'[w] # req'[u]
    <3>1. CASE u = t
      BY <2>3, <3>1 DEF Fresh
    <3>2. CASE u # t
      BY <2>2, <2>3, <3>2 DEF Fresh
    <3> QED
      BY <3>1, <3>2
  <2> QED
    BY <2>4, <2>5 DEF Fresh
<1>4. CASE /\ \/ Clear(t) \/ Enter(t) \/ FailWrite(t) \/ EndWrite(t) \/ WriteTimeout(t)
              \/ StartRead(t) \/ FailRead(t) \/ EndRead(t) \/ ReadTimeout(t)
              \/ Leave(t) \/ Return(t)
  <2>1. UNCHANGED <<executed, rawhidreadData, begun, writeIrps>>
    BY <1>4 DEF Clear, Enter, FailWrite, EndWrite, WriteTimeout, StartRead, FailRead,
                EndRead, ReadTimeout, Leave, Return, drvVars, devVars
  <2>2. Known' = Known
    BY <2>1 DEF Known, Queued
  <2>3. UNCHANGED issued
    BY <1>4 DEF Clear, Enter, FailWrite, EndWrite, WriteTimeout, StartRead, FailRead,
                EndRead, ReadTimeout, Leave, Return
  <2>4. \A u \in Threads :
          /\ req'[u] \in {req[u], 0}
          /\ pc'[u] # "idle" => pc[u] # "idle" /\ req'[u] = req[u]
          /\ pc'[u] \in {"clear", "enter", "write"} => pc[u] \in {"clear", "enter", "write"}
    BY <1>4 DEF Clear, Enter, FailWrite, EndWrite, WriteTimeout, StartRead, FailRead,
                EndRead, ReadTimeout, Leave, Return, Goto, TypeOK
  <2> QED
    BY <2>2, <2>3, <2>4, FreshKept
<1>5. CASE Die
  <2>1. Known' \subseteq Known
    BY <1>5, QueuedEmpty DEF Die, NewHidDevice, devVars, Known
  <2> QED
    BY <1>5, <2>1, FreshKept DEF Die
<1> QED
  BY <1>1, <1>2, <1>3, <1>4, <1>5 DEF ThreadStep, NullHandle

LEMMA DeviceFresh ==
  ASSUME TypeOK, Fresh, DeviceStep
  PROVE  Fresh'
<1>1. UNCHANGED <<req, issued, pc>>
  BY DEF DeviceStep, SetReport, InReport, FwRead, FwExecute, FwSend, FwSendZlp,
         DeviceReset, BusReset, Configure, hostVars
<1>2. Known' \subseteq Known \cup {0}
  <2>1. CASE SetReport
    BY <2>1, QueuedTail DEF SetReport, Known, TypeOK
  <2>2. CASE InReport
    BY <2>2 DEF InReport, Known, Queued
  <2>3. CASE FwRead \/ FwExecute \/ FwSend \/ FwSendZlp
    BY <2>3 DEF FwRead, FwExecute, FwSend, FwSendZlp, drvVars, Known, Queued, Zero
  <2>4. CASE DeviceReset \/ BusReset
    BY <2>4, QueuedEmpty DEF DeviceReset, BusReset, FailRequests, Known, Zero
  <2>5. CASE Configure
    BY <2>5 DEF Configure, drvVars, Known, Queued
  <2> QED
    BY <2>1, <2>2, <2>3, <2>4, <2>5 DEF DeviceStep
<1> QED
  BY <1>1, <1>2, FreshKept

LEMMA NextFresh ==
  ASSUME TypeOK, Fresh, [Next]_vars
  PROVE  Fresh'
<1>1. CASE Die
  <2>1. Known' \subseteq Known
    BY <1>1, QueuedEmpty DEF Die, NewHidDevice, devVars, Known
  <2> QED
    BY <1>1, <2>1, FreshKept DEF Die
<1>2. CASE UNCHANGED vars
  BY <1>2, FreshKept DEF vars, hostVars, drvVars, devVars, Known, Queued
<1> QED
  BY <1>1, <1>2, HostFresh, DeviceFresh DEF Next, DeviceStep, Kill

-----------------------------------------------------------------------------
(* What the steps of the firmware do to the packets in the endpoint.        *)

LEMMA ZlpAppended ==
  ASSUME banks \in Seq(Nat), banks' = Append(banks, Zlp), NEW c \in Nat \ {0}
  PROVE  /\ NoReplyInBank => NoReplyInBank'
         /\ BankHas(c) => BankHas(c)'
<1>1. /\ Len(banks) \in Nat /\ DOMAIN banks = 1..Len(banks) /\ DOMAIN banks' = 1..(Len(banks) + 1)
      /\ \A i \in 1..Len(banks) : banks'[i] = banks[i]
      /\ banks'[Len(banks) + 1] = Zlp
  BY AppendProperties, LenProperties DEF Zlp
<1> QED
  BY <1>1 DEF NoReplyInBank, BankHas, Zlp

LEMMA ReplyAppended ==
  ASSUME banks \in Seq(Nat), NEW c \in Nat, banks' = Append(banks, c), NoReplyInBank
  PROVE  BankHas(c)'
<1>1. /\ Len(banks) \in Nat /\ DOMAIN banks = 1..Len(banks) /\ DOMAIN banks' = 1..(Len(banks) + 1)
      /\ \A i \in 1..Len(banks) : banks'[i] = banks[i]
      /\ banks'[Len(banks) + 1] = c
  BY AppendProperties, LenProperties
<1> QED
  BY <1>1 DEF NoReplyInBank, BankHas

LEMMA PacketTaken ==
  ASSUME banks \in Seq(Nat), banks # <<>>, banks' = Tail(banks), NEW c \in Nat \ {0}
  PROVE  /\ NoReplyInBank => NoReplyInBank' /\ Head(banks) = Zlp
         /\ BankHas(c) => \/ Head(banks) = Zlp /\ BankHas(c)'
                          \/ Head(banks) = c /\ NoReplyInBank'
<1>1. /\ Len(banks) \in Nat \ {0} /\ DOMAIN banks = 1..Len(banks)
      /\ DOMAIN banks' = 1..(Len(banks) - 1)
      /\ \A i \in 1..(Len(banks) - 1) : banks'[i] = banks[i + 1]
      /\ Head(banks) = banks[1]
  BY HeadTailProperties, LenProperties, EmptySeq
<1>2. NoReplyInBank => NoReplyInBank' /\ Head(banks) = Zlp
  BY <1>1 DEF NoReplyInBank
<1>3. ASSUME BankHas(c)
      PROVE  \/ Head(banks) = Zlp /\ BankHas(c)'
             \/ Head(banks) = c /\ NoReplyInBank'
  <2>1. PICK i \in 1..Len(banks) : /\ banks[i] = c
                                   /\ \A j \in 1..Len(banks) : j # i => banks[j] = Zlp
    BY <1>1, <1>3 DEF BankHas
  <2>2. CASE i = 1
    BY <1>1, <2>1, <2>2 DEF NoReplyInBank
  <2>3. CASE i # 1
    <3>1. i - 1 \in 1..(Len(banks) - 1) /\ banks'[i - 1] = c
      BY <1>1, <2>1, <2>3
    <3>2. \A j \in 1..(Len(banks) - 1) : j # i - 1 => banks'[j] = Zlp
      BY <1>1, <2>1
    <3>3. Head(banks) = Zlp
      BY <1>1, <2>1, <2>3
    <3> QED
      BY <1>1, <3>1, <3>2, <3>3 DEF BankHas
  <2> QED
    BY <2>2, <2>3
<1> QED
  BY <1>2, <1>3

LEMMA QuietAlt == DeviceQuiet <=> ~dataAvailable /\ fw \in {"poll", "zlp"} /\ NoReplyInBank
BY DEF DeviceQuiet, NoReplyInBank

(* The firmware moves the command it has towards the endpoint or gives its  *)
(* reply up, and makes nothing out of nothing.                              *)
Firmware == FwRead \/ FwExecute \/ FwSend \/ FwSendZlp

LEMMA FirmwareMoves ==
  ASSUME TypeOK, Firmware, NEW c \in Nat \ {0}
  PROVE  /\ DeviceQuiet => DeviceQuiet' /\ executed' = executed
         /\ DeviceHas(c) => DeviceHas(c)' \/ DeviceQuiet'
         /\ executed \subseteq executed'
<1> USE QuietAlt DEF TypeOK
<1>1. CASE FwRead
  <2>1. NoReplyInBank' <=> NoReplyInBank
    BY <1>1 DEF FwRead, NoReplyInBank
  <2> QED
    BY <1>1, <2>1 DEF FwRead, DeviceHas, DeviceQuiet, NoReplyInBank
<1>2. CASE FwExecute
  <2>1. NoReplyInBank' <=> NoReplyInBank
    BY <1>2 DEF FwExecute, NoReplyInBank
  <2>2. executed \subseteq executed' /\ ~DeviceQuiet
    BY <1>2 DEF FwExecute, DeviceQuiet
  <2>3. ASSUME DeviceHas(c) PROVE DeviceHas(c)'
    <3>1. ~dataAvailable /\ rawhidreadData = c /\ begun = c /\ NoReplyInBank
      BY <1>2, <2>3 DEF FwExecute, DeviceHas
    <3> QED
      BY <1>2, <2>1, <3>1 DEF FwExecute, DeviceHas
  <2> QED
    BY <2>2, <2>3
<1>3. CASE FwSend
  <2>1. executed' = executed /\ dataAvailable' = dataAvailable /\ ~DeviceQuiet
    BY <1>3 DEF FwSend, DeviceQuiet
  <2>2. ASSUME DeviceHas(c) PROVE DeviceHas(c)' \/ DeviceQuiet'
    <3>1. ~dataAvailable /\ rawhidwriteData = c /\ c \in executed /\ NoReplyInBank
      BY <1>3, <2>2 DEF FwSend, DeviceHas
    <3>2. CASE banks' = Append(banks, rawhidwriteData) /\ fw' = "zlp"
      <4>1. BankHas(c)'
        BY <3>1, <3>2, ReplyAppended
      <4> QED
        BY <2>1, <3>1, <3>2, <4>1 DEF DeviceHas
    <3>3. CASE fw' = "poll" /\ UNCHANGED banks
      BY <2>1, <3>1, <3>3 DEF DeviceQuiet, NoReplyInBank
    <3> QED
      BY <1>3, <3>2, <3>3 DEF FwSend
  <2> QED
    BY <2>1, <2>2
<1>4. CASE FwSendZlp
  <2>1. /\ executed' = executed /\ dataAvailable' = dataAvailable /\ fw = "zlp" /\ fw' = "poll"
        /\ rawhidreadData' = rawhidreadData
    BY <1>4 DEF FwSendZlp
  <2>2. /\ NoReplyInBank => NoReplyInBank'
        /\ BankHas(c) => BankHas(c)'
    <3>1. CASE banks' = banks
      BY <3>1 DEF NoReplyInBank, BankHas
    <3>2. CASE banks' = Append(banks, Zlp)
      BY <3>2, ZlpAppended
    <3> QED
      BY <1>4, <3>1, <3>2 DEF FwSendZlp
  <2>3. DeviceQuiet => DeviceQuiet'
    BY <2>1, <2>2 DEF DeviceQuiet, NoReplyInBank
  <2>4. DeviceHas(c) => DeviceHas(c)'
    BY <2>1, <2>2 DEF DeviceHas
  <2> QED
    BY <2>1, <2>3, <2>4
<1> QED
  BY <1>1, <1>2, <1>3, <1>4 DEF Firmware

(* The host takes a packet out of the endpoint.                             *)
LEMMA PacketMoves ==
  ASSUME TypeOK, InReport, NEW c \in Nat \ {0}
  PROVE  /\ DeviceQuiet => Head(banks) = Zlp /\ DeviceQuiet'
         /\ DeviceHas(c) => \/ Head(banks) = Zlp /\ DeviceHas(c)'
                            \/ Head(banks) = c /\ c \in executed /\ DeviceQuiet'
<1>1. /\ banks # <<>> /\ banks' = Tail(banks) /\ banks \in Seq(Nat)
      /\ UNCHANGED <<dataAvailable, rawhidreadData, fw, begun, rawhidwriteData, executed>>
  BY DEF InReport, TypeOK
<1>2. /\ NoReplyInBank => NoReplyInBank' /\ Head(banks) = Zlp
      /\ BankHas(c) => \/ Head(banks) = Zlp /\ BankHas(c)'
                       \/ Head(banks) = c /\ NoReplyInBank'
  BY <1>1, PacketTaken
<1>3. DeviceQuiet => Head(banks) = Zlp /\ DeviceQuiet'
  BY <1>1, <1>2 DEF DeviceQuiet, NoReplyInBank
<1>4. ASSUME DeviceHas(c)
      PROVE  \/ Head(banks) = Zlp /\ DeviceHas(c)'
             \/ Head(banks) = c /\ c \in executed /\ DeviceQuiet'
  <2>1. CASE NoReplyInBank /\ fw # "poll" /\ fw # "zlp"
    BY <1>1, <1>2, <1>4, <2>1 DEF DeviceHas
  <2>2. CASE NoReplyInBank /\ dataAvailable
    BY <1>1, <1>2, <1>4, <2>2 DEF DeviceHas
  <2>3. CASE /\ ~dataAvailable /\ c \in executed
             /\ fw \in {"poll", "zlp"} /\ BankHas(c)
    BY <1>1, <1>2, <2>3 DEF DeviceHas, DeviceQuiet, NoReplyInBank
  <2> QED
    BY <1>4, <2>1, <2>2, <2>3 DEF DeviceHas
<1> QED
  BY <1>3, <1>4

(* A device that was reset is quiet.                                        *)
LEMMA ResetIsQuiet ==
  ASSUME DeviceReset
  PROVE  DeviceQuiet'
BY DEF DeviceReset, DeviceQuiet

LEMMA SameDeviceQuiet ==
  ASSUME UNCHANGED devVars
  PROVE  DeviceQuiet' <=> DeviceQuiet
BY DEF devVars, DeviceQuiet

(* What threads do leaves the device as it is.                              *)
LEMMA HostKeepsDevice ==
  ASSUME NEW t \in Threads,
         \/ OpenDevice(t) \/ CloseDevice(t)
         \/ \E k \in {"verdict", "value"} : Call(t, k)
         \/ ThreadStep(t)
  PROVE  UNCHANGED devVars
BY DEF OpenDevice, CloseDevice, Call, ThreadStep, Clear, Enter, StartWrite, FailWrite,
       EndWrite, WriteTimeout, StartRead, FailRead, EndRead, ReadTimeout, Leave, Return,
       NullHandle, Die

LEMMA InitDead == Init => DeadIsQuiet
BY DEF Init, DeadIsQuiet

LEMMA NextDead ==
  ASSUME TypeOK, DeadIsQuiet, [Next]_vars
  PROVE  DeadIsQuiet'
<1>1. ASSUME NEW t \in Threads, OpenDevice(t) \/ CloseDevice(t)
      PROVE  DeadIsQuiet'
  BY <1>1 DEF OpenDevice, CloseDevice, DeadIsQuiet
<1>2. ASSUME UNCHANGED <<handle, writeIrps, readIrps, devVars>>, abandoned => abandoned'
      PROVE  DeadIsQuiet'
  BY <1>2, SameDeviceQuiet DEF DeadIsQuiet
<1>3. ASSUME NEW t \in Threads, \E k \in {"verdict", "value"} : Call(t, k)
      PROVE  DeadIsQuiet'
  BY <1>2, <1>3 DEF Call, drvVars
<1>4. ASSUME NEW t \in Threads,
             \/ Clear(t) \/ Enter(t) \/ FailWrite(t) \/ EndWrite(t) \/ WriteTimeout(t)
             \/ FailRead(t) \/ EndRead(t) \/ ReadTimeout(t) \/ Leave(t) \/ Return(t)
      PROVE  DeadIsQuiet'
  BY <1>2, <1>4 DEF Clear, Enter, FailWrite, EndWrite, WriteTimeout, FailRead, EndRead,
                    ReadTimeout, Leave, Return, drvVars
<1>5. ASSUME NEW t \in Threads, StartWrite(t)
      PROVE  DeadIsQuiet'
  BY <1>5 DEF StartWrite, DeadIsQuiet
<1>6. ASSUME NEW t \in Threads, StartRead(t)
      PROVE  DeadIsQuiet'
  <2>1. CASE handle = "open"
    BY <1>6, <2>1 DEF StartRead, DeadIsQuiet
  <2>2. CASE read_pending
    BY <1>2, <1>6, <2>2 DEF StartRead
  <2> QED
    BY <1>6, <2>1, <2>2 DEF StartRead
<1>7. ASSUME Die
      PROVE  DeadIsQuiet'
  BY <1>7 DEF Die, DeadIsQuiet
<1>8. ASSUME SetReport \/ InReport
      PROVE  DeadIsQuiet'
  BY <1>8 DEF SetReport, InReport, DeadIsQuiet
<1>9. ASSUME Firmware
      PROVE  DeadIsQuiet'
  <2>1. DeviceQuiet => DeviceQuiet'
    BY <1>9, FirmwareMoves
  <2>2. UNCHANGED <<handle, writeIrps, readIrps, abandoned>>
    BY <1>9 DEF Firmware, FwRead, FwExecute, FwSend, FwSendZlp, drvVars
  <2> QED
    BY <2>1, <2>2 DEF DeadIsQuiet
<1>10. ASSUME DeviceReset
       PROVE  DeadIsQuiet'
  BY <1>10, ResetIsQuiet DEF DeviceReset, FailRequests, DeadIsQuiet
<1>12. ASSUME BusReset
       PROVE  DeadIsQuiet'
  BY <1>12 DEF BusReset, FailRequests, DeadIsQuiet
<1>13. ASSUME Configure
       PROVE  DeadIsQuiet'
  <2>1. DeviceQuiet => DeviceQuiet'
    BY <1>13 DEF Configure, DeviceQuiet
  <2> QED
    BY <1>13, <2>1 DEF Configure, drvVars, DeadIsQuiet
<1>11. ASSUME UNCHANGED vars
       PROVE  DeadIsQuiet'
  BY <1>2, <1>11 DEF vars, drvVars
<1> QED
  BY <1>1, <1>3, <1>4, <1>5, <1>6, <1>7, <1>8, <1>9, <1>10, <1>11, <1>12, <1>13
     DEF Next, ThreadStep, NullHandle, Kill, Firmware

LEMMA InitEndpoint == Init => EndpointEmpty
BY DEF Init, EndpointEmpty

LEMMA NextEndpoint ==
  ASSUME TypeOK, EndpointEmpty, [Next]_vars
  PROVE  EndpointEmpty'
<1> USE DEF EndpointEmpty
<1>1. CASE UNCHANGED devVars
  BY <1>1 DEF devVars
<1>2. ASSUME NEW t \in Threads,
             \/ OpenDevice(t) \/ CloseDevice(t)
             \/ \E k \in {"verdict", "value"} : Call(t, k)
             \/ ThreadStep(t)
      PROVE  UNCHANGED devVars
  BY <1>2, HostKeepsDevice
<1>3. CASE Kill \/ UNCHANGED vars
  BY <1>1, <1>3 DEF Kill, Die, vars
<1>4. CASE SetReport \/ FwRead \/ FwExecute
  BY <1>4 DEF SetReport, FwRead, FwExecute
<1>5. CASE InReport \/ FwSend \/ FwSendZlp
  BY <1>5 DEF InReport, FwSend, FwSendZlp, BankFree
<1>6. CASE DeviceReset \/ BusReset \/ Configure
  BY <1>6 DEF DeviceReset, BusReset, Configure
<1> QED
  BY <1>1, <1>2, <1>3, <1>4, <1>5, <1>6 DEF Next

-----------------------------------------------------------------------------
(* OneInFlight.                                                             *)

LEMMA InitInFlight == Init => OneInFlight
BY DEF Init, OneInFlight, NothingInFlight, DeviceQuiet

(* What the invariant says of the thread in the critical section.           *)
LEMMA Owner ==
  ASSUME IInv, NEW t \in Threads, pc[t] \in Critical, ~abandoned
  PROVE  /\ g_mutex = t /\ g_mutex # NoThread
         /\ Exchange(pc[t], req[t])
         /\ req[t] \in Nat \ {0}
<1>1. g_mutex = t /\ g_mutex # NoThread
  BY LinkAssumption DEF IInv, LockHeld
<1>2. Exchange(pc[t], req[t])
  BY <1>1 DEF IInv, OneInFlight
<1>3. req[t] \in Nat \ {0}
  BY DEF IInv, Fresh, TypeOK, Critical
<1> QED
  BY <1>1, <1>2, <1>3

(* Steps that touch nothing of the exchange.                                *)
LEMMA InFlightFrame ==
  ASSUME OneInFlight,
         UNCHANGED <<g_mutex, handle, hidVars, drvVars, devVars, executed, abandoned>>,
         g_mutex # NoThread => pc'[g_mutex] = pc[g_mutex] /\ req'[g_mutex] = req[g_mutex]
  PROVE  OneInFlight'
BY DEF OneInFlight, Exchange, NothingInFlight, Accepted, DeviceHas, BankHas, NoReplyInBank,
       DeviceQuiet, hidVars, drvVars, devVars

(* Steps after which the critical section is free or its exchange is over.  *)
LEMMA NothingLeft ==
  ASSUME ~abandoned' => NothingInFlight',
         g_mutex' # NoThread => pc'[g_mutex'] \in {"write", "leave"}
  PROVE  OneInFlight'
BY DEF OneInFlight, Exchange

LEMMA OutsideInFlight ==
  ASSUME IInv, NEW t \in Threads,
         \/ OpenDevice(t) \/ CloseDevice(t)
         \/ \E k \in {"verdict", "value"} : Call(t, k)
         \/ Clear(t) \/ Enter(t) \/ Return(t)
  PROVE  OneInFlight'
<1> USE DEF IInv
<1>1. CASE OpenDevice(t)
  <2>1. g_mutex' = NoThread /\ NewHidDevice /\ UNCHANGED devVars
    BY <1>1 DEF OpenDevice, hostVars
  <2>2. ~abandoned' => DeviceQuiet
    BY <1>1 DEF OpenDevice, OneInFlight, NothingInFlight
  <2>3. ~abandoned' => NothingInFlight'
    BY <2>1, <2>2, SameDeviceQuiet DEF NewHidDevice, NothingInFlight
  <2> QED
    BY <2>1, <2>3, NothingLeft
<1>2. CASE CloseDevice(t)
  <2>1. g_mutex' = NoThread /\ NewHidDevice /\ UNCHANGED devVars
    BY <1>2 DEF CloseDevice, hostVars
  <2>2. ~abandoned' => DeviceQuiet
    BY <1>2 DEF CloseDevice, OneInFlight, NothingInFlight
  <2>3. ~abandoned' => NothingInFlight'
    BY <2>1, <2>2, SameDeviceQuiet DEF NewHidDevice, NothingInFlight
  <2> QED
    BY <2>1, <2>3, NothingLeft
<1>3. CASE (\E k \in {"verdict", "value"} : Call(t, k)) \/ Clear(t) \/ Return(t)
  <2>1. pc[t] \notin Critical
    BY <1>3 DEF Call, Clear, Return, Critical
  <2>2. g_mutex # t
    BY <2>1 DEF LockHeld
  <2>3. UNCHANGED <<g_mutex, handle, hidVars, drvVars, devVars, executed, abandoned>>
    BY <1>3 DEF Call, Clear, Return
  <2>4. g_mutex # NoThread => pc'[g_mutex] = pc[g_mutex] /\ req'[g_mutex] = req[g_mutex]
    BY <1>3, <2>2 DEF Call, Clear, Return, Goto, TypeOK
  <2> QED
    BY <2>3, <2>4, InFlightFrame
<1>4. CASE Enter(t)
  <2>1. /\ g_mutex = NoThread /\ g_mutex' = t /\ pc'[t] = "write"
        /\ UNCHANGED <<handle, hidVars, drvVars, devVars, abandoned>>
    BY <1>4 DEF Enter, Goto, TypeOK
  <2>2. ~abandoned' => NothingInFlight'
    BY <2>1, SameDeviceQuiet DEF OneInFlight, NothingInFlight, hidVars, drvVars
  <2> QED
    BY <2>1, <2>2, NothingLeft
<1> QED
  BY <1>1, <1>2, <1>3, <1>4

LEMMA DieInFlight ==
  ASSUME Die
  PROVE  OneInFlight'
<1>1. g_mutex' = NoThread /\ NewHidDevice /\ UNCHANGED devVars /\ (~abandoned' => DeviceQuiet)
  BY DEF Die
<1>2. ~abandoned' => NothingInFlight'
  BY <1>1, SameDeviceQuiet DEF NewHidDevice, NothingInFlight
<1> QED
  BY <1>1, <1>2, NothingLeft

(* The command is handed to the driver.                                     *)
LEMMA StartWriteInFlight ==
  ASSUME IInv, NEW t \in Threads, StartWrite(t)
  PROVE  OneInFlight'
<1> SUFFICES ASSUME ~abandoned' PROVE OneInFlight'
  BY DEF OneInFlight
<1>1. ~abandoned /\ pc[t] = "write" /\ handle = "open"
  BY DEF StartWrite
<1>2. g_mutex = t /\ g_mutex # NoThread /\ Exchange(pc[t], req[t])
  BY <1>1, Owner DEF Critical
<1>3. NothingInFlight /\ ring = <<>>
  BY <1>1, <1>2 DEF Exchange, NothingInFlight
<1>4. req[t] \notin executed
  BY <1>1 DEF IInv, Fresh, Known
<1>5. /\ g_mutex' = t /\ pc'[t] = "waitWrite" /\ req'[t] = req[t] /\ ~ev'
      /\ UNCHANGED <<readIrps, read_pending, ring, devVars, executed>>
      /\ writeIrps' = Append(writeIrps, req[t])
  BY <1>2 DEF StartWrite, Goto, IInv, TypeOK
<1>6. writeIrps' = <<req[t]>>
  BY <1>3, <1>5 DEF NothingInFlight
<1>7. DeviceQuiet'
  BY <1>3, <1>5, SameDeviceQuiet DEF NothingInFlight
<1>8. Exchange("waitWrite", req[t])'
  BY <1>3, <1>4, <1>5, <1>6, <1>7 DEF Exchange, NothingInFlight
<1> QED
  BY <1>2, <1>5, <1>8 DEF OneInFlight

(* The write is over: the device has the command, or is gone.               *)
LEMMA EndWriteInFlight ==
  ASSUME IInv, NEW t \in Threads, EndWrite(t)
  PROVE  OneInFlight'
<1> SUFFICES ASSUME ~abandoned' PROVE OneInFlight'
  BY DEF OneInFlight
<1>1. ~abandoned /\ pc[t] = "waitWrite" /\ ev
  BY DEF EndWrite
<1>2. g_mutex = t /\ g_mutex # NoThread /\ Exchange(pc[t], req[t])
  BY <1>1, Owner DEF Critical
<1>3. /\ readIrps = 0 /\ ~read_pending /\ writeIrps = <<>>
      /\ \/ ol = "done" /\ Accepted(req[t])
         \/ ol = "failed" /\ DeviceQuiet /\ ring = <<>>
  BY <1>1, <1>2 DEF Exchange
<1>4. /\ g_mutex' = t /\ req' = req
      /\ pc'[t] = IF ol = "done" THEN "read" ELSE "leave"
      /\ UNCHANGED <<handle, hidVars, drvVars, devVars, executed>>
  BY <1>2 DEF EndWrite, Goto, IInv, TypeOK
<1>5. CASE ol = "done"
  <2>1. Accepted(req[t])'
    BY <1>3, <1>4, <1>5 DEF Accepted, DeviceHas, BankHas, NoReplyInBank, DeviceQuiet,
                            drvVars, devVars
  <2>2. Exchange("read", req[t])'
    BY <1>3, <1>4, <2>1 DEF Exchange, hidVars, drvVars
  <2> QED
    BY <1>2, <1>4, <1>5, <2>2 DEF OneInFlight
<1>6. CASE ol = "failed"
  <2>1. NothingInFlight'
    BY <1>3, <1>4, <1>6, SameDeviceQuiet DEF NothingInFlight, hidVars, drvVars
  <2> QED
    BY <1>4, <1>6, <2>1, NothingLeft
<1> QED
  BY <1>3, <1>5, <1>6

LEMMA StartReadInFlight ==
  ASSUME IInv, NEW t \in Threads, StartRead(t)
  PROVE  OneInFlight'
<1> SUFFICES ASSUME ~abandoned' PROVE OneInFlight'
  BY DEF OneInFlight
<1> DEFINE c == req[t]
<1>1. ~abandoned /\ pc[t] = "read"
  BY DEF StartRead
<1>2. g_mutex = t /\ g_mutex # NoThread /\ Exchange(pc[t], req[t])
  BY <1>1, Owner DEF Critical
<1>3. writeIrps = <<>> /\ readIrps = 0 /\ ~read_pending /\ Accepted(c)
  BY <1>1, <1>2 DEF Exchange
<1>4. /\ g_mutex' = t /\ req' = req /\ pc'[t] = "waitRead"
      /\ UNCHANGED <<writeIrps, devVars, executed>> /\ read_pending'
  BY <1>2, <1>3 DEF StartRead, Goto, IInv, TypeOK
<1>5. /\ DeviceQuiet' <=> DeviceQuiet
      /\ DeviceHas(c)' <=> DeviceHas(c)
  BY <1>4 DEF DeviceHas, BankHas, NoReplyInBank, DeviceQuiet, devVars
<1>6. CASE ring # <<>>
  <2>1. DeviceQuiet /\ ring = <<c>> /\ c \in executed
    BY <1>3, <1>6 DEF Accepted
  <2>2. /\ read_buf' = Head(ring) /\ ring' = Tail(ring) /\ ol' = "done" /\ ev'
        /\ readIrps' = readIrps
    BY <1>3, <1>6 DEF StartRead
  <2>3. read_buf' = c /\ ring' = <<>>
    BY <2>1, <2>2
  <2>4. Exchange("waitRead", c)'
    BY <1>3, <1>4, <1>5, <2>1, <2>2, <2>3 DEF Exchange
  <2> QED
    BY <1>2, <1>4, <2>4 DEF OneInFlight
<1>7. CASE ring = <<>>
  <2>1. DeviceHas(c) \/ DeviceQuiet
    BY <1>3, <1>7 DEF Accepted
  <2>2. readIrps' = readIrps + 1 /\ ~ev' /\ ring' = ring
    BY <1>3, <1>7 DEF StartRead
  <2>3. Exchange("waitRead", c)'
    BY <1>3, <1>4, <1>5, <1>7, <2>1, <2>2 DEF Exchange
  <2> QED
    BY <1>2, <1>4, <2>3 DEF OneInFlight
<1> QED
  BY <1>6, <1>7

(* The exchange ends: nothing of it is left.                                *)
LEMMA EndInFlight ==
  ASSUME IInv, NEW t \in Threads,
         \/ FailWrite(t) \/ WriteTimeout(t)
         \/ FailRead(t) \/ EndRead(t) \/ ReadTimeout(t) \/ Leave(t)
  PROVE  OneInFlight'
<1> SUFFICES ASSUME ~abandoned' PROVE OneInFlight'
  BY DEF OneInFlight
<1>1. ~abandoned /\ pc[t] \in Critical
  BY DEF FailWrite, WriteTimeout, FailRead, EndRead, ReadTimeout, Leave, Critical
<1>2. g_mutex = t /\ g_mutex # NoThread /\ Exchange(pc[t], req[t])
  BY <1>1, Owner
<1>3. ~WriteTimeout(t) /\ ~ReadTimeout(t)
  BY DEF WriteTimeout, ReadTimeout
<1>4. g_mutex' # NoThread => pc'[g_mutex'] \in {"write", "leave"}
  BY <1>2, <1>3 DEF FailWrite, FailRead, EndRead, Leave, Goto, IInv, TypeOK
<1>5. UNCHANGED devVars /\ (DeviceQuiet' <=> DeviceQuiet)
  BY <1>3, SameDeviceQuiet DEF FailWrite, FailRead, EndRead, Leave
<1>6. NothingInFlight'
  <2>1. CASE FailWrite(t)
    BY <1>2, <1>5, <2>1 DEF FailWrite, Exchange, NothingInFlight, drvVars
  <2>2. CASE FailRead(t)
    BY <1>2, <1>5, <2>2 DEF FailRead, Exchange, NothingInFlight, drvVars, IInv, DeadIsQuiet
  <2>3. CASE EndRead(t)
    BY <1>2, <1>5, <2>3 DEF EndRead, Exchange, NothingInFlight, drvVars
  <2>4. CASE Leave(t)
    BY <1>2, <1>5, <2>4 DEF Leave, Exchange, NothingInFlight, hidVars, drvVars
  <2> QED
    BY <1>3, <2>1, <2>2, <2>3, <2>4
<1> QED
  BY <1>4, <1>6, NothingLeft

(* Steps of the device.  The thread in the critical section, if there is    *)
(* one, stays where it is.                                                  *)

LEMMA DeviceKeepsOwner ==
  ASSUME IInv, DeviceStep
  PROVE  /\ UNCHANGED <<g_mutex, pc, req, read_pending>> /\ (abandoned => abandoned')
         /\ g_mutex # NoThread => g_mutex \in Threads
BY DEF DeviceStep, SetReport, InReport, FwRead, FwExecute, FwSend, FwSendZlp,
       DeviceReset, BusReset, Configure, hostVars, hidVars, IInv, TypeOK

(* With the critical section free only the way of an empty packet is open.  *)
LEMMA DeviceIdle ==
  ASSUME IInv, DeviceStep, NothingInFlight
  PROVE  NothingInFlight'
<1>1. TypeOK /\ UNCHANGED read_pending
  BY DeviceKeepsOwner DEF IInv
<1>2. CASE SetReport
  BY <1>2 DEF SetReport, NothingInFlight
<1>3. CASE InReport
  <2>1. Head(banks) = Zlp /\ DeviceQuiet'
    BY <1>1, <1>3, PacketMoves DEF NothingInFlight
  <2> QED
    BY <1>1, <1>3, <2>1 DEF InReport, NothingInFlight
<1>4. CASE Firmware
  <2>1. DeviceQuiet'
    BY <1>1, <1>4, FirmwareMoves DEF NothingInFlight
  <2> QED
    BY <1>1, <1>4, <2>1 DEF Firmware, FwRead, FwExecute, FwSend, FwSendZlp, drvVars,
                            NothingInFlight
<1>5. CASE DeviceReset
  <2>1. DeviceQuiet'
    BY <1>5, ResetIsQuiet
  <2>2. readIrps' = 0 /\ writeIrps' = <<>> /\ UNCHANGED <<read_pending, ring>>
    BY <1>5 DEF DeviceReset, FailRequests
  <2>3. handle = "dead" => handle' = "dead"
    BY <1>5 DEF DeviceReset
  <2> QED
    BY <2>1, <2>2, <2>3 DEF NothingInFlight
<1>6. CASE BusReset
  <2>1. DeviceQuiet'
    BY <1>6 DEF BusReset, DeviceQuiet, NothingInFlight
  <2>2. readIrps' = 0 /\ writeIrps' = <<>> /\ UNCHANGED <<read_pending, ring>>
    BY <1>6 DEF BusReset, FailRequests
  <2>3. handle = "dead" => handle' = "dead"
    BY <1>6 DEF BusReset
  <2> QED
    BY <2>1, <2>2, <2>3 DEF NothingInFlight
<1>7. CASE Configure
  <2>1. DeviceQuiet'
    BY <1>7 DEF Configure, DeviceQuiet, NothingInFlight
  <2> QED
    BY <1>7, <2>1 DEF Configure, hidVars, drvVars, NothingInFlight
<1> QED
  BY <1>2, <1>3, <1>4, <1>5, <1>6, <1>7 DEF DeviceStep, Firmware

LEMMA FirmwareExchange ==
  ASSUME IInv, Firmware, NEW c \in Nat \ {0}, NEW l \in {"waitWrite", "read", "waitRead"},
         Exchange(l, c)
  PROVE  Exchange(l, c)'
<1>1. /\ DeviceQuiet => DeviceQuiet' /\ executed' = executed
      /\ DeviceHas(c) => DeviceHas(c)' \/ DeviceQuiet'
      /\ executed \subseteq executed'
  BY FirmwareMoves DEF IInv
<1>2. UNCHANGED <<ev, ol, read_pending, read_buf, readIrps, writeIrps, ring>>
  BY DEF Firmware, FwRead, FwExecute, FwSend, FwSendZlp, hidVars, drvVars
<1>3. Accepted(c) => Accepted(c)'
  BY <1>1, <1>2 DEF Accepted
<1> QED
  BY <1>1, <1>2, <1>3 DEF Exchange

LEMMA SetReportExchange ==
  ASSUME IInv, SetReport, NEW c \in Nat \ {0}, NEW l \in {"waitWrite", "read", "waitRead"},
         Exchange(l, c)
  PROVE  Exchange(l, c)'
<1>1. /\ l = "waitWrite" /\ readIrps = 0 /\ ~read_pending
      /\ writeIrps = <<c>> /\ c \notin executed /\ DeviceQuiet /\ ring = <<>>
  BY DEF SetReport, Exchange
<1>2. ~dataAvailable /\ fw \in {"poll", "zlp"} /\ NoReplyInBank
  BY <1>1 DEF DeviceQuiet, NoReplyInBank
<1>3. /\ writeIrps' = Tail(writeIrps) /\ ev' /\ ol' = "done" /\ dataAvailable'
      /\ rawhidreadData' = Head(writeIrps)
      /\ UNCHANGED <<readIrps, read_pending, ring, fw, banks, executed>>
  BY <1>2 DEF SetReport
<1>4. writeIrps' = <<>> /\ rawhidreadData' = c
  BY <1>1, <1>3
<1>5. NoReplyInBank'
  BY <1>2, <1>3 DEF NoReplyInBank
<1>6. DeviceHas(c)'
  BY <1>1, <1>2, <1>3, <1>4, <1>5 DEF DeviceHas
<1>7. Accepted(c)'
  BY <1>1, <1>3, <1>6 DEF Accepted
<1> QED
  BY <1>1, <1>3, <1>4, <1>7 DEF Exchange

LEMMA InReportExchange ==
  ASSUME IInv, InReport, NEW c \in Nat \ {0}, NEW l \in {"waitWrite", "read", "waitRead"},
         Exchange(l, c)
  PROVE  Exchange(l, c)'
<1>1. /\ DeviceQuiet => Head(banks) = Zlp /\ DeviceQuiet'
      /\ DeviceHas(c) => \/ Head(banks) = Zlp /\ DeviceHas(c)'
                         \/ Head(banks) = c /\ c \in executed /\ DeviceQuiet'
  BY PacketMoves DEF IInv
<1>2. UNCHANGED <<read_pending, writeIrps, executed>>
  BY DEF InReport
<1>3. c # Zlp
  BY DEF Zlp
<1>4. CASE Head(banks) = Zlp
  <2>1. UNCHANGED <<readIrps, read_buf, ol, ev, ring>>
    BY <1>4 DEF InReport
  <2>2. DeviceQuiet => DeviceQuiet'
    BY <1>1
  <2>3. DeviceHas(c) => DeviceHas(c)'
    BY <1>1, <1>3, <1>4
  <2>4. Accepted(c) => Accepted(c)'
    BY <1>2, <2>1, <2>2, <2>3 DEF Accepted
  <2> QED
    BY <1>2, <2>1, <2>2, <2>3, <2>4 DEF Exchange
<1>5. CASE Head(banks) # Zlp
  <2>1. ~DeviceQuiet
    BY <1>1, <1>5
  <2>2. DeviceHas(c) /\ ring = <<>>
    BY <2>1 DEF Exchange, Accepted
  <2>3. Head(banks) = c /\ c \in executed /\ DeviceQuiet'
    BY <1>1, <1>5, <2>2
  <2>4. CASE l = "waitRead"
    <3>1. readIrps = 1
      BY <2>1, <2>4 DEF Exchange
    <3>2. readIrps' = 0 /\ read_buf' = c /\ ol' = "done" /\ ev' /\ ring' = ring
      BY <1>5, <2>3, <3>1 DEF InReport
    <3> QED
      BY <1>2, <2>2, <2>3, <2>4, <3>2 DEF Exchange
  <2>5. CASE l \in {"waitWrite", "read"}
    <3>1. readIrps = 0
      BY <2>5 DEF Exchange
    <3>2. ring' = Append(IF Len(ring) < RingSize THEN ring ELSE Tail(ring), c)
      BY <1>5, <2>3, <3>1 DEF InReport
    <3>3. UNCHANGED <<readIrps, read_buf, ol, ev>>
      BY <1>5, <3>1 DEF InReport, IInv, TypeOK
    <3>4. Len(ring) = 0
      BY <2>2
    <3>5. ring' = <<c>>
      BY <2>2, <3>2, <3>4, LinkAssumption
    <3>6. Accepted(c)'
      BY <1>2, <2>3, <3>5 DEF Accepted
    <3>7. CASE l = "read"
      BY <1>2, <3>3, <3>6, <3>7 DEF Exchange
    <3>8. CASE l = "waitWrite"
      BY <1>2, <2>1, <3>3, <3>6, <3>8 DEF Exchange
    <3> QED
      BY <2>5, <3>7, <3>8
  <2> QED
    BY <2>4, <2>5
<1> QED
  BY <1>4, <1>5

(* A reset of the device or the bus after which the device is quiet.        *)
LEMMA ResetExchange ==
  ASSUME IInv, DeviceReset \/ BusReset, ~abandoned',
         NEW c \in Nat \ {0}, NEW l \in {"waitWrite", "read", "waitRead"},
         Exchange(l, c)
  PROVE  Exchange(l, c)'
<1>1. /\ DeviceQuiet' /\ writeIrps' = <<>> /\ readIrps' = 0
      /\ UNCHANGED <<read_pending, read_buf, ring, executed>>
  BY ResetIsQuiet DEF DeviceReset, BusReset, FailRequests
<1>2. CASE readIrps > 0 \/ writeIrps # <<>>
  <2>1. ev' /\ ol' = "failed"
    BY <1>2 DEF DeviceReset, BusReset, FailRequests
  <2>2. l # "read" /\ ring = <<>>
    BY <1>2 DEF Exchange
  <2> QED
    BY <1>1, <2>1, <2>2 DEF Exchange
<1>3. CASE readIrps = 0 /\ writeIrps = <<>>
  <2>1. UNCHANGED <<ev, ol>>
    BY <1>3 DEF DeviceReset, BusReset, FailRequests
  <2>2. Accepted(c) => Accepted(c)'
    BY <1>1 DEF Accepted
  <2> QED
    BY <1>1, <1>3, <2>1, <2>2 DEF Exchange
<1>4. readIrps \in Nat
  BY DEF IInv, TypeOK
<1> QED
  BY <1>2, <1>3, <1>4

LEMMA ConfigureExchange ==
  ASSUME IInv, Configure, NEW c \in Nat \ {0}, NEW l \in {"waitWrite", "read", "waitRead"},
         Exchange(l, c)
  PROVE  Exchange(l, c)'
<1>1. UNCHANGED <<ev, ol, read_pending, read_buf, readIrps, writeIrps, ring, dataAvailable,
                  rawhidreadData, fw, begun, rawhidwriteData, banks, executed>>
  BY DEF Configure, hidVars, drvVars, IInv, EndpointEmpty
<1>2. (DeviceQuiet' <=> DeviceQuiet) /\ (DeviceHas(c)' <=> DeviceHas(c))
  BY <1>1 DEF DeviceQuiet, DeviceHas, BankHas, NoReplyInBank
<1>3. Accepted(c)' <=> Accepted(c)
  BY <1>1, <1>2 DEF Accepted
<1> QED
  BY <1>1, <1>2, <1>3 DEF Exchange

LEMMA DeviceInFlight ==
  ASSUME IInv, DeviceStep
  PROVE  OneInFlight'
<1> SUFFICES ASSUME ~abandoned' PROVE OneInFlight'
  BY DEF OneInFlight
<1>1. /\ UNCHANGED <<g_mutex, pc, req, read_pending>> /\ ~abandoned
      /\ g_mutex # NoThread => g_mutex \in Threads
  BY DeviceKeepsOwner
<1>2. CASE g_mutex = NoThread
  <2>1. NothingInFlight
    BY <1>1, <1>2 DEF IInv, OneInFlight
  <2>2. NothingInFlight'
    BY <2>1, DeviceIdle
  <2> QED
    BY <1>1, <1>2, <2>2 DEF OneInFlight
<1>3. CASE g_mutex # NoThread
  <2> DEFINE l == pc[g_mutex]
             c == req[g_mutex]
  <2>1. g_mutex \in Threads /\ l \in Critical
    BY <1>1, <1>3 DEF IInv, LockHeld
  <2>2. Exchange(l, c) /\ c \in Nat \ {0}
    BY <1>1, <2>1, Owner
  <2>3. CASE l \in {"waitWrite", "read", "waitRead"}
    <3>1. PICK m, d : m = l /\ d = c
      OBVIOUS
    <3>2. d \in Nat \ {0} /\ m \in {"waitWrite", "read", "waitRead"} /\ Exchange(m, d)
      BY <2>2, <2>3, <3>1
    <3>3. Exchange(m, d)'
      BY <3>2, FirmwareExchange, SetReportExchange, InReportExchange, ResetExchange,
         ConfigureExchange
         DEF DeviceStep, Firmware
    <3>4. m = pc'[g_mutex'] /\ d = req'[g_mutex']
      BY <1>1, <3>1
    <3> QED
      BY <1>1, <1>3, <3>3, <3>4 DEF OneInFlight
  <2>4. CASE l \in {"write", "leave"}
    <3>1. NothingInFlight
      BY <2>2, <2>4 DEF Exchange
    <3>2. NothingInFlight'
      BY <3>1, DeviceIdle
    <3> QED
      BY <1>1, <2>4, <3>2, NothingLeft
  <2> QED
    BY <2>1, <2>3, <2>4 DEF Critical
<1> QED
  BY <1>2, <1>3

LEMMA NextInFlight ==
  ASSUME IInv, [Next]_vars
  PROVE  OneInFlight'
<1>1. CASE UNCHANGED vars
  BY <1>1, InFlightFrame DEF IInv, vars, hostVars
<1> QED
  BY <1>1, OutsideInFlight, DieInFlight, StartWriteInFlight, EndWriteInFlight,
     StartReadInFlight, EndInFlight, DeviceInFlight
     DEF Next, ThreadStep, NullHandle, Kill, DeviceStep

-----------------------------------------------------------------------------
(* OwnAnswer and SuccessWasExecuted speak of a thread that is about to      *)
(* leave with a reply: only EndRead brings it there, and nobody else moves  *)
(* the reply or takes back what was executed before it is gone.             *)

Answered(t) ==
  /\ kind[t] = "value" => result[t] = req[t]
  /\ req[t] \in executed

LEMMA AnswersAre ==
  ASSUME \A t \in Threads : pc[t] = "leave" /\ okay[t] /\ ~abandoned => Answered(t)
  PROVE  OwnAnswer /\ SuccessWasExecuted
BY DEF OwnAnswer, SuccessWasExecuted, Answered

LEMMA AnswersFrame ==
  ASSUME OwnAnswer, SuccessWasExecuted, executed \subseteq executed', NEW t \in Threads,
         pc'[t] = "leave" => pc[t] = "leave",
         abandoned => abandoned',
         UNCHANGED <<okay[t], kind[t], req[t], result[t]>>,
         pc'[t] = "leave", okay'[t], ~abandoned'
  PROVE  Answered(t)'
BY DEF OwnAnswer, SuccessWasExecuted, Answered

LEMMA InitAnswers == Init => OwnAnswer /\ SuccessWasExecuted
BY DEF Init, OwnAnswer, SuccessWasExecuted

(* What EndRead hands over when the read has completed.                     *)
LEMMA EndReadAnswers ==
  ASSUME IInv, NEW t \in Threads, EndRead(t), okay'[t], ~abandoned'
  PROVE  Answered(t)'
<1>1. pc[t] = "waitRead" /\ ev /\ ~abandoned /\ ol = "done"
  BY DEF EndRead, IInv, TypeOK
<1>2. Exchange(pc[t], req[t])
  BY <1>1, Owner DEF Critical
<1>3. read_buf = req[t] /\ req[t] \in executed
  BY <1>1, <1>2 DEF Exchange
<1>4. UNCHANGED <<kind, req, executed>> /\ result' = [result EXCEPT ![Slot(t)] = read_buf]
  BY <1>1 DEF EndRead
<1>5. kind[t] = "value" => Slot(t) = t /\ t \in Slots
  BY DEF Slot, Slots
<1>6. kind[t] = "value" => result'[t] = read_buf
  BY <1>4, <1>5 DEF IInv, TypeOK
<1> QED
  BY <1>3, <1>4, <1>6 DEF Answered

(* The steps of one thread, seen by the same thread or by another one.      *)
LEMMA HostAnswers ==
  ASSUME IInv, NEW u \in Threads,
         \/ OpenDevice(u) \/ CloseDevice(u)
         \/ \E k \in {"verdict", "value"} : Call(u, k)
         \/ Clear(u) \/ Enter(u) \/ StartWrite(u) \/ FailWrite(u) \/ EndWrite(u)
         \/ WriteTimeout(u) \/ StartRead(u) \/ FailRead(u) \/ EndRead(u)
         \/ ReadTimeout(u) \/ Leave(u) \/ Return(u),
         NEW t \in Threads, pc'[t] = "leave", okay'[t], ~abandoned'
  PROVE  Answered(t)'
<1> USE DEF IInv
<1>1. CASE OpenDevice(u)
  <2>1. g_mutex = NoThread /\ pc'[t] = pc[t]
    BY <1>1 DEF OpenDevice, hostVars
  <2>2. pc[t] # "leave"
    BY <2>1, LinkAssumption DEF LockHeld, Critical
  <2> QED
    BY <2>1, <2>2
<1>2. CASE CloseDevice(u)
  BY <1>2, AnswersFrame DEF CloseDevice, hostVars
<1>3. CASE \E k \in {"verdict", "value"} : Call(u, k)
  <2>1. pc'[u] # "leave" /\ executed' = executed /\ abandoned' = abandoned
    BY <1>3 DEF Call, Goto, TypeOK
  <2>2. u # t
    BY <2>1
  <2> QED
    BY <1>3, <2>1, <2>2, AnswersFrame DEF Call, Goto, TypeOK
<1>4. CASE Clear(u)
  <2>1. pc'[u] # "leave" /\ executed' = executed /\ abandoned' = abandoned
    BY <1>4 DEF Clear, Goto, TypeOK
  <2>2. u # t /\ t # Shared
    BY <2>1, LinkAssumption
  <2> QED
    BY <1>4, <2>1, <2>2, AnswersFrame DEF Clear, Goto, TypeOK
<1>5. CASE Enter(u) \/ StartWrite(u) \/ StartRead(u) \/ Leave(u)
  <2>1. /\ pc'[u] # "leave" /\ \A w \in Threads : w # u => pc'[w] = pc[w]
        /\ UNCHANGED <<kind, req, result, okay, executed, abandoned>>
    BY <1>5 DEF Enter, StartWrite, StartRead, Leave, Goto, TypeOK
  <2> QED
    BY <2>1, AnswersFrame
<1>10. CASE Return(u)
  <2>1. /\ pc'[u] # "leave" /\ UNCHANGED <<executed, abandoned>>
        /\ \A w \in Threads : w # u => UNCHANGED <<pc[w], kind[w], req[w], okay[w]>>
    BY <1>10 DEF Return, Goto, TypeOK
  <2>2. u # t /\ t \in Slots
    BY <2>1 DEF Slots
  <2>3. result'[t] = result[t]
    BY <1>10, <2>2 DEF Return, TypeOK
  <2> QED
    BY <2>1, <2>2, <2>3, AnswersFrame
<1>6. CASE FailWrite(u) \/ FailRead(u)
  <2>1. /\ ~okay'[u] /\ \A w \in Threads : w # u => pc'[w] = pc[w] /\ okay'[w] = okay[w]
        /\ UNCHANGED <<kind, req, result, executed, abandoned>>
    BY <1>6 DEF FailWrite, FailRead, Goto, TypeOK
  <2> QED
    BY <2>1, AnswersFrame
<1>7. CASE EndWrite(u)
  <2>1. /\ pc'[u] = "leave" => ~okay'[u]
        /\ \A w \in Threads : w # u => pc'[w] = pc[w] /\ okay'[w] = okay[w]
        /\ UNCHANGED <<kind, req, result, executed, abandoned>>
    BY <1>7 DEF EndWrite, Goto, TypeOK
  <2> QED
    BY <2>1, AnswersFrame
<1>8. CASE WriteTimeout(u) \/ ReadTimeout(u)
  BY <1>8 DEF WriteTimeout, ReadTimeout
<1>9. CASE EndRead(u)
  <2>1. CASE u = t
    BY <1>9, <2>1, EndReadAnswers
  <2>2. CASE u # t
    <3>1. pc[u] = "waitRead" /\ pc'[t] = pc[t]
      BY <1>9, <2>2 DEF EndRead, Goto, TypeOK
    <3>2. g_mutex = u /\ g_mutex = t
      BY <3>1 DEF LockHeld, Critical
    <3> QED
      BY <2>2, <3>2
  <2> QED
    BY <2>1, <2>2
<1> QED
  BY <1>1, <1>2, <1>3, <1>4, <1>5, <1>6, <1>7, <1>8, <1>9, <1>10

LEMMA DeviceAnswers ==
  ASSUME IInv, DeviceStep, NEW t \in Threads, pc'[t] = "leave", okay'[t], ~abandoned'
  PROVE  Answered(t)'
<1>1. UNCHANGED hostVars
  BY DEF DeviceStep, SetReport, InReport, FwRead, FwExecute, FwSend, FwSendZlp,
         DeviceReset, BusReset, Configure
<1>2. abandoned => abandoned'
  <2>1. CASE BusReset
    BY <2>1 DEF BusReset
  <2> QED
    BY <2>1 DEF DeviceStep, SetReport, InReport, FwRead, FwExecute, FwSend, FwSendZlp,
                DeviceReset, Configure
<1>3. executed \subseteq executed'
  <2>1. CASE FwExecute
    BY <2>1 DEF FwExecute
  <2> QED
    BY <2>1 DEF DeviceStep, SetReport, InReport, FwRead, FwSend, FwSendZlp,
                DeviceReset, BusReset, Configure
<1> QED
  BY <1>1, <1>2, <1>3, AnswersFrame DEF hostVars, IInv

LEMMA NextAnswers ==
  ASSUME IInv, [Next]_vars
  PROVE  OwnAnswer' /\ SuccessWasExecuted'
<1> SUFFICES ASSUME NEW t \in Threads, pc'[t] = "leave", okay'[t], ~abandoned'
             PROVE  Answered(t)'
  BY DEF OwnAnswer, SuccessWasExecuted, Answered
<1>1. CASE Die
  BY <1>1 DEF Die
<1>2. CASE UNCHANGED vars
  BY <1>2, AnswersFrame DEF vars, hostVars, IInv
<1> QED
  BY <1>1, <1>2, HostAnswers, DeviceAnswers DEF Next, ThreadStep, NullHandle, Kill, DeviceStep

-----------------------------------------------------------------------------
(* The inductive invariant holds, and with it what it is made of.           *)

LEMMA InitInvariant == Init => IInv
BY InitTyped, InitLock, InitFresh, InitDead, InitEndpoint, InitInFlight, InitAnswers DEF IInv

LEMMA NextInvariant == IInv /\ [Next]_vars => IInv'
<1> SUFFICES ASSUME IInv, [Next]_vars PROVE IInv'
  OBVIOUS
<1>1. TypeOK /\ LockHeld /\ Fresh /\ DeadIsQuiet /\ EndpointEmpty
  BY DEF IInv
<1>2. TypeOK' /\ LockHeld' /\ Fresh' /\ DeadIsQuiet' /\ EndpointEmpty'
  BY <1>1, NextTyped, NextLock, NextFresh, NextDead, NextEndpoint
<1>3. OneInFlight' /\ OwnAnswer' /\ SuccessWasExecuted'
  BY NextInFlight, NextAnswers
<1> QED
  BY <1>2, <1>3 DEF IInv

THEOREM Invariance == Spec => []IInv
BY InitInvariant, NextInvariant, PTL DEF Spec

(* While no exchange was given up, at most one command or reply exists      *)
(* between the API and the firmware: the one of the thread that holds the   *)
(* critical section.                                                        *)
THEOREM SingleExchange == Spec => []OneInFlight
<1>1. IInv => OneInFlight
  BY DEF IInv
<1> QED
  BY <1>1, Invariance, PTL

(* The critical section and the one OVERLAPPED suffice, as long as no       *)
(* exchange was given up, for every SendAndWaitResult to get the reply to   *)
(* its own command.                                                         *)
THEOREM RepliesMatch == Spec => []OwnAnswer
<1>1. IInv => OwnAnswer
  BY DEF IInv
<1> QED
  BY <1>1, Invariance, PTL

(* A call whose transport succeeded has been carried out, as long as no     *)
(* exchange was given up.                                                   *)
THEOREM SuccessIsReal == Spec => []SuccessWasExecuted
<1>1. IInv => SuccessWasExecuted
  BY DEF IInv
<1> QED
  BY <1>1, Invariance, PTL

(* The mailbox is the command buffer, yet loop() carries out the command it *)
(* dispatched on, and none twice, as long as no exchange was given up.      *)
LEMMA DeviceBusy ==
  ASSUME IInv, ~abandoned, fw = "exec"
  PROVE  rawhidreadData = begun /\ begun \notin executed
<1>1. ~DeviceQuiet
  BY DEF DeviceQuiet
<1>2. g_mutex # NoThread /\ g_mutex \in Threads
  BY <1>1 DEF IInv, TypeOK, OneInFlight, NothingInFlight
<1>3. pc[g_mutex] \in Critical /\ Exchange(pc[g_mutex], req[g_mutex])
  BY <1>2 DEF IInv, LockHeld, OneInFlight
<1>4. DeviceHas(req[g_mutex])
  BY <1>1, <1>3 DEF Exchange, Critical, Accepted, NothingInFlight
<1> QED
  BY <1>4 DEF DeviceHas

LEMMA ExecuteOnly ==
  ASSUME [Next]_vars, fw = "exec", fw' = "send"
  PROVE  FwExecute
<1>1. CASE UNCHANGED devVars
  BY <1>1 DEF devVars
<1>2. ASSUME NEW t \in Threads,
             \/ OpenDevice(t) \/ CloseDevice(t)
             \/ \E k \in {"verdict", "value"} : Call(t, k)
             \/ ThreadStep(t)
      PROVE  UNCHANGED devVars
  BY <1>2, HostKeepsDevice
<1>3. CASE Kill \/ UNCHANGED vars
  BY <1>1, <1>3 DEF Kill, Die, vars
<1>4. CASE SetReport \/ InReport \/ FwRead \/ FwSend \/ FwSendZlp
           \/ DeviceReset \/ BusReset \/ Configure
  BY <1>4 DEF SetReport, InReport, FwRead, FwSend, FwSendZlp, DeviceReset, BusReset, Configure
<1> QED
  BY <1>1, <1>2, <1>3, <1>4 DEF Next

THEOREM ExecutedOnce == Spec => ExecutesOnce
<1>1. ASSUME IInv, [Next]_vars, fw = "exec", fw' = "send", ~abandoned
      PROVE  begun \notin executed /\ executed' = executed \cup {begun}
  <2>1. rawhidreadData = begun /\ begun \notin executed
    BY <1>1, DeviceBusy
  <2>2. FwExecute
    BY <1>1, ExecuteOnly
  <2> QED
    BY <2>1, <2>2 DEF FwExecute
<1>2. IInv /\ [Next]_vars =>
        [fw = "exec" /\ fw' = "send" /\ ~abandoned
           => begun \notin executed /\ executed' = executed \cup {begun}]_vars
  BY <1>1
<1> QED
  BY <1>2, Invariance, PTL DEF Spec, ExecutesOnce

-----------------------------------------------------------------------------
(* The verdict of a program with one thread: the shared static result holds *)
(* the reply to its call from EndRead until the call has returned.          *)

OneCaller == \A t, u \in Threads : t = u

VerdictKept ==
  \A t \in Threads :
    pc[t] \in {"leave", "return"} /\ kind[t] = "verdict" /\ okay[t] /\ ~abandoned
      => result[Shared] = req[t]

LEMMA InitVerdict == Init => VerdictKept
BY DEF Init, VerdictKept

LEMMA EndReadVerdict ==
  ASSUME IInv, NEW t \in Threads, EndRead(t), kind'[t] = "verdict", okay'[t], ~abandoned'
  PROVE  result'[Shared] = req'[t]
<1>1. pc[t] = "waitRead" /\ ev /\ ~abandoned /\ ol = "done" /\ kind[t] = "verdict"
  BY DEF EndRead, IInv, TypeOK
<1>2. Exchange(pc[t], req[t])
  BY <1>1, Owner DEF Critical
<1>3. read_buf = req[t]
  BY <1>1, <1>2 DEF Exchange
<1>4. req' = req /\ result' = [result EXCEPT ![Shared] = read_buf] /\ Shared \in Slots
  BY <1>1 DEF EndRead, Slot, Slots
<1> QED
  BY <1>3, <1>4 DEF IInv, TypeOK

(* The step of the only thread.                                             *)
LEMMA HostVerdict ==
  ASSUME IInv, VerdictKept, NEW t \in Threads,
         \/ OpenDevice(t) \/ CloseDevice(t)
         \/ \E k \in {"verdict", "value"} : Call(t, k)
         \/ Clear(t) \/ Enter(t) \/ StartWrite(t) \/ FailWrite(t) \/ EndWrite(t)
         \/ WriteTimeout(t) \/ StartRead(t) \/ FailRead(t) \/ EndRead(t)
         \/ ReadTimeout(t) \/ Leave(t) \/ Return(t),
         pc'[t] \in {"leave", "return"}, kind'[t] = "verdict", okay'[t], ~abandoned'
  PROVE  result'[Shared] = req'[t]
<1> USE DEF IInv
<1>1. CASE OpenDevice(t) \/ CloseDevice(t)
  BY <1>1 DEF OpenDevice, CloseDevice, hostVars
<1>2. CASE (\E k \in {"verdict", "value"} : Call(t, k)) \/ Clear(t) \/ Enter(t)
           \/ StartWrite(t) \/ StartRead(t) \/ Return(t)
  BY <1>2 DEF Call, Clear, Enter, StartWrite, StartRead, Return, Goto, TypeOK
<1>3. CASE FailWrite(t) \/ FailRead(t) \/ WriteTimeout(t) \/ ReadTimeout(t)
  BY <1>3 DEF FailWrite, FailRead, WriteTimeout, ReadTimeout, TypeOK
<1>4. CASE EndWrite(t)
  BY <1>4 DEF EndWrite, Goto, TypeOK
<1>5. CASE EndRead(t)
  BY <1>5, EndReadVerdict
<1>6. CASE Leave(t)
  BY <1>6 DEF Leave, VerdictKept
<1> QED
  BY <1>1, <1>2, <1>3, <1>4, <1>5, <1>6

LEMMA NextVerdict ==
  ASSUME OneCaller, IInv, VerdictKept, [Next]_vars
  PROVE  VerdictKept'
<1> SUFFICES ASSUME NEW t \in Threads,
                    pc'[t] \in {"leave", "return"}, kind'[t] = "verdict", okay'[t], ~abandoned'
             PROVE  result'[Shared] = req'[t]
  BY DEF VerdictKept
<1>1. CASE Die
  BY <1>1 DEF Die
<1>2. CASE UNCHANGED vars
  BY <1>2 DEF vars, hostVars, VerdictKept
<1>3. CASE DeviceStep
  <2>1. UNCHANGED hostVars
    BY <1>3 DEF DeviceStep, SetReport, InReport, FwRead, FwExecute, FwSend, FwSendZlp,
                DeviceReset, BusReset, Configure
  <2>2. abandoned => abandoned'
    <3>1. CASE BusReset
      BY <3>1 DEF BusReset
    <3> QED
      BY <1>3, <3>1 DEF DeviceStep, SetReport, InReport, FwRead, FwExecute, FwSend,
                        FwSendZlp, DeviceReset, Configure
  <2> QED
    BY <2>1, <2>2 DEF hostVars, VerdictKept
<1>4. ASSUME NEW u \in Threads,
             \/ OpenDevice(u) \/ CloseDevice(u)
             \/ \E k \in {"verdict", "value"} : Call(u, k)
             \/ Clear(u) \/ Enter(u) \/ StartWrite(u) \/ FailWrite(u) \/ EndWrite(u)
             \/ WriteTimeout(u) \/ StartRead(u) \/ FailRead(u) \/ EndRead(u)
             \/ ReadTimeout(u) \/ Leave(u) \/ Return(u)
      PROVE  result'[Shared] = req'[t]
  <2>1. u = t
    BY DEF OneCaller
  <2> QED
    BY <1>4, <2>1, HostVerdict
<1> QED
  BY <1>1, <1>2, <1>3, <1>4 DEF Next, ThreadStep, NullHandle, Kill, DeviceStep

(* In a program with one thread a call that reports through the shared      *)
(* result returns the verdict of the firmware on its own command, unless an *)
(* exchange was given up.  With two threads it is false: the result is      *)
(* cleared before the critical section and looked at after it.              *)
THEOREM VerdictIsOwn ==
  ASSUME OneCaller
  PROVE  Spec => []OwnVerdict
<1>1. Init => VerdictKept
  BY InitVerdict
<1>2. IInv /\ VerdictKept /\ [Next]_vars => VerdictKept'
  BY NextVerdict
<1>3. VerdictKept => OwnVerdict
  BY DEF VerdictKept, OwnVerdict, Success
<1> QED
  BY <1>1, <1>2, <1>3, Invariance, PTL DEF Spec

-----------------------------------------------------------------------------
(* The link implements CommandService: each step of threads, driver and     *)
(* device is a step of the service or changes nothing a caller can see.     *)

Calls == [t \in Threads |-> CallState(t)]
Seen == <<Calls, req, executed, abandoned>>

LEMMA InitServes == Init => Service!Init
BY DEF Init, Service!Init, CallState

LEMMA CallsFrame ==
  ASSUME UNCHANGED <<pc, okay>>
  PROVE  UNCHANGED Calls
BY DEF Calls, CallState

(* A step of one thread changes the state of no other call.                 *)
LEMMA CallMoves ==
  ASSUME TypeOK, NEW t \in Threads, NEW l \in Locations, Goto(t, l),
         okay' = okay \/ \E b \in BOOLEAN : okay' = [okay EXCEPT ![t] = b]
  PROVE  /\ Calls' = [Calls EXCEPT ![t] = CallState(t)']
         /\ pc'[t] = l /\ Calls[t] = CallState(t)
<1>1. \A u \in Threads : u # t => pc'[u] = pc[u] /\ okay'[u] = okay[u]
  BY DEF Goto, TypeOK
<1>2. \A u \in Threads : u # t => CallState(u)' = CallState(u)
  BY <1>1 DEF CallState
<1>3. pc'[t] = l
  BY DEF Goto, TypeOK
<1> QED
  BY <1>2, <1>3 DEF Calls

(* A step inside a call that does not end it is invisible.                  *)
LEMMA CallGoesOn ==
  ASSUME TypeOK, NEW t \in Threads, NEW l \in Locations, Goto(t, l), okay' = okay,
         \/ {pc[t], l} \cap {"idle", "leave", "return"} = {}
         \/ pc[t] = "leave" /\ l = "return"
  PROVE  UNCHANGED Calls
<1>1. Calls' = [Calls EXCEPT ![t] = CallState(t)'] /\ pc'[t] = l /\ Calls[t] = CallState(t)
  BY CallMoves
<1>2. CallState(t)' = CallState(t)
  BY <1>1 DEF CallState
<1>3. Calls = [u \in Threads |-> CallState(u)]
  BY DEF Calls
<1> QED
  BY <1>1, <1>2, <1>3

(* A call ends its transport with the given outcome.                        *)
LEMMA CallEnds ==
  ASSUME TypeOK, NEW t \in Threads, NEW b \in BOOLEAN, Goto(t, "leave"),
         okay' = [okay EXCEPT ![t] = b], pc[t] \notin {"idle", "leave", "return"}
  PROVE  /\ Calls[t] = "waiting"
         /\ Calls' = [Calls EXCEPT ![t] = IF b THEN "succeeded" ELSE "failed"]
<1>1. Calls' = [Calls EXCEPT ![t] = CallState(t)'] /\ pc'[t] = "leave" /\ Calls[t] = CallState(t)
  BY CallMoves DEF Locations
<1>2. okay'[t] = b
  BY DEF TypeOK
<1>3. Calls[t] = "waiting"
  BY <1>1 DEF CallState
<1>4. CallState(t)' = IF b THEN "succeeded" ELSE "failed"
  BY <1>1, <1>2 DEF CallState
<1> QED
  BY <1>1, <1>3, <1>4

LEMMA CallServes ==
  ASSUME TypeOK, Fresh, NEW t \in Threads, NEW k \in {"verdict", "value"}, Call(t, k)
  PROVE  Service!Start(t)
<1>1. pc[t] = "idle" /\ req' = [req EXCEPT ![t] = issued + 1]
      /\ UNCHANGED <<okay, executed, abandoned>>
  BY DEF Call
<1>2. PICK l \in {"clear", "enter"} : Goto(t, l)
  BY DEF Call
<1>3. Calls' = [Calls EXCEPT ![t] = CallState(t)'] /\ pc'[t] = l /\ Calls[t] = CallState(t)
  BY <1>1, <1>2, CallMoves DEF Locations
<1>4. Calls[t] = "idle" /\ Calls' = [Calls EXCEPT ![t] = "waiting"]
  BY <1>1, <1>2, <1>3 DEF CallState
<1>5. req'[t] = issued + 1 /\ issued \in Nat
  BY <1>1 DEF TypeOK
<1>6. issued + 1 \notin executed \cup {req[u] : u \in Threads}
  BY <1>5 DEF Fresh, Known
<1>7. req'[t] \in Nat /\ req'[t] \notin executed \cup {req[u] : u \in Threads}
  BY <1>5, <1>6
<1>8. req' = [req EXCEPT ![t] = req'[t]] /\ UNCHANGED <<executed, abandoned>>
  BY <1>1, <1>5
<1> QED
  BY <1>4, <1>7, <1>8 DEF Service!Start, Calls

LEMMA ReturnServes ==
  ASSUME TypeOK, NEW t \in Threads, Return(t)
  PROVE  Service!Return(t)
<1>1. pc[t] = "return" /\ Goto(t, "idle") /\ okay' = [okay EXCEPT ![t] = FALSE]
      /\ req' = [req EXCEPT ![t] = 0] /\ UNCHANGED <<executed, abandoned>>
  BY DEF Return
<1>2. Calls' = [Calls EXCEPT ![t] = CallState(t)'] /\ pc'[t] = "idle" /\ Calls[t] = CallState(t)
  BY <1>1, CallMoves DEF Locations
<1>3. Calls[t] \in {"succeeded", "failed"} /\ Calls' = [Calls EXCEPT ![t] = "idle"]
  BY <1>1, <1>2 DEF CallState
<1> QED
  BY <1>1, <1>3 DEF Service!Return, Calls

LEMMA EndServes ==
  ASSUME TypeOK, SuccessWasExecuted', NEW t \in Threads,
         FailWrite(t) \/ EndWrite(t) \/ FailRead(t) \/ EndRead(t)
  PROVE  Service!Finish(t) \/ Service!Degraded \/ UNCHANGED Seen
<1>1. UNCHANGED <<req, executed, abandoned>>
  BY DEF FailWrite, EndWrite, FailRead, EndRead
<1>2. CASE Goto(t, "read") /\ EndWrite(t)
  <2>1. pc[t] = "waitWrite" /\ okay' = [okay EXCEPT ![t] = TRUE]
    BY <1>2 DEF EndWrite, Goto, TypeOK
  <2>2. Calls' = [Calls EXCEPT ![t] = CallState(t)'] /\ pc'[t] = "read" /\ Calls[t] = CallState(t)
    BY <1>2, <2>1, CallMoves DEF Locations
  <2>3. CallState(t)' = CallState(t)
    BY <2>1, <2>2 DEF CallState
  <2>4. UNCHANGED Calls
    BY <2>2, <2>3 DEF Calls
  <2> QED
    BY <1>1, <2>4 DEF Seen
<1>3. CASE ~(Goto(t, "read") /\ EndWrite(t))
  <2>1. /\ Goto(t, "leave") /\ pc[t] \in {"write", "waitWrite", "read", "waitRead"}
        /\ \E b \in BOOLEAN : okay' = [okay EXCEPT ![t] = b]
    BY <1>3 DEF FailWrite, EndWrite, FailRead, EndRead
  <2>2. PICK b \in BOOLEAN : okay' = [okay EXCEPT ![t] = b]
    BY <2>1
  <2>3. /\ Calls[t] = "waiting"
        /\ Calls' = [Calls EXCEPT ![t] = IF b THEN "succeeded" ELSE "failed"]
    BY <2>1, <2>2, CallEnds
  <2>4. b => req[t] \in executed \/ abandoned
    <3>1. pc'[t] = "leave" /\ okay'[t] = b
      BY <2>1, <2>2 DEF Goto, TypeOK
    <3> QED
      BY <1>1, <3>1 DEF SuccessWasExecuted
  <2>5. CASE b /\ req[t] \notin executed
    <3>1. Calls' = [Calls EXCEPT ![t] = "succeeded"] /\ abandoned
      BY <2>3, <2>4, <2>5
    <3> QED
      BY <1>1, <2>3, <3>1 DEF Service!Degraded, Calls
  <2>6. CASE ~b \/ req[t] \in executed
    <3>1. \/ req[t] \in executed /\ Calls' = [Calls EXCEPT ![t] = "succeeded"]
          \/ Calls' = [Calls EXCEPT ![t] = "failed"]
      BY <2>3, <2>6
    <3> QED
      BY <1>1, <2>3, <3>1 DEF Service!Finish, Calls
  <2> QED
    BY <2>5, <2>6
<1> QED
  BY <1>2, <1>3

LEMMA TimeoutServes ==
  ASSUME TypeOK, NEW t \in Threads, WriteTimeout(t) \/ ReadTimeout(t)
  PROVE  Service!GiveUp(t)
<1>1. /\ Goto(t, "leave") /\ pc[t] \in {"waitWrite", "waitRead"}
      /\ okay' = [okay EXCEPT ![t] = FALSE] /\ abandoned' = TRUE /\ UNCHANGED <<req, executed>>
  BY DEF WriteTimeout, ReadTimeout
<1>2. Calls[t] = "waiting" /\ Calls' = [Calls EXCEPT ![t] = "failed"]
  BY <1>1, CallEnds
<1> QED
  BY <1>1, <1>2 DEF Service!GiveUp, Calls

LEMMA DieServes ==
  ASSUME TypeOK, Die
  PROVE  Service!Abort
<1>1. Calls' = [t \in Threads |-> "idle"]
  BY DEF Die, Calls, CallState
<1>2. abandoned' \in {abandoned, TRUE}
  BY DEF Die, TypeOK
<1>3. req' = [t \in Threads |-> 0] /\ UNCHANGED executed
  BY DEF Die
<1> QED
  BY <1>1, <1>2, <1>3 DEF Service!Abort, Calls

(* The rest of what a thread does inside a call is invisible.               *)
LEMMA InsideServes ==
  ASSUME TypeOK, NEW t \in Threads,
         Clear(t) \/ Enter(t) \/ StartWrite(t) \/ StartRead(t) \/ Leave(t)
  PROVE  UNCHANGED Seen
<1>1. UNCHANGED <<req, okay, executed, abandoned>>
  BY DEF Clear, Enter, StartWrite, StartRead, Leave
<1>2. \E l \in Locations :
        /\ Goto(t, l)
        /\ \/ {pc[t], l} \cap {"idle", "leave", "return"} = {}
           \/ pc[t] = "leave" /\ l = "return"
  BY DEF Clear, Enter, StartWrite, StartRead, Leave, Locations
<1> QED
  BY <1>1, <1>2, CallGoesOn DEF Seen

(* What the firmware carries out is the command of the one waiting call,    *)
(* unless an exchange was given up.                                         *)
LEMMA ExecuteServes ==
  ASSUME IInv, FwExecute
  PROVE  (\E t \in Threads : Service!Apply(t)) \/ Service!Degraded \/ UNCHANGED Seen
<1>1. UNCHANGED <<req, abandoned, Calls>>
  BY CallsFrame DEF FwExecute, hostVars
<1>2. PICK c \in {begun, rawhidreadData} : executed' = executed \cup {c}
  BY DEF FwExecute
<1>3. CASE executed' = executed
  BY <1>1, <1>3 DEF Seen
<1>4. CASE abandoned /\ executed' # executed
  BY <1>1, <1>2, <1>4 DEF Service!Degraded, Calls
<1>5. CASE ~abandoned
  <2>1. fw = "exec" /\ ~DeviceQuiet
    BY DEF FwExecute, DeviceQuiet
  <2>2. g_mutex \in Threads /\ pc[g_mutex] \in Critical /\ Exchange(pc[g_mutex], req[g_mutex])
    BY <1>5, <2>1 DEF IInv, TypeOK, OneInFlight, NothingInFlight, LockHeld
  <2>3. DeviceHas(req[g_mutex]) /\ pc[g_mutex] \in {"waitWrite", "read", "waitRead"}
    BY <2>1, <2>2 DEF Exchange, Critical, Accepted, NothingInFlight
  <2>4. c = req[g_mutex] /\ c \notin executed
    BY <2>1, <2>3 DEF DeviceHas
  <2>5. Calls[g_mutex] = "waiting"
    BY <2>2, <2>3 DEF Calls, CallState
  <2> QED
    BY <1>1, <1>2, <2>2, <2>4, <2>5 DEF Service!Apply, Calls
<1> QED
  BY <1>3, <1>4, <1>5

LEMMA BusResetServes ==
  ASSUME IInv, BusReset
  PROVE  Service!Lose \/ UNCHANGED Seen
<1>1. UNCHANGED <<req, executed, Calls>> /\ abandoned' = (abandoned \/ ~DeviceQuiet')
  BY CallsFrame DEF BusReset, hostVars
<1>2. DeviceQuiet => DeviceQuiet'
  BY DEF BusReset, DeviceQuiet
<1>3. CASE abandoned' = abandoned
  BY <1>1, <1>3 DEF Seen
<1>4. CASE abandoned' # abandoned
  <2>1. ~abandoned /\ ~DeviceQuiet /\ abandoned' = TRUE
    BY <1>1, <1>2, <1>4 DEF IInv, TypeOK
  <2>2. g_mutex \in Threads /\ pc[g_mutex] \in Critical /\ Exchange(pc[g_mutex], req[g_mutex])
    BY <2>1 DEF IInv, TypeOK, OneInFlight, NothingInFlight, LockHeld
  <2>3. pc[g_mutex] \in {"waitWrite", "read", "waitRead"}
    BY <2>1, <2>2 DEF Exchange, Critical, NothingInFlight
  <2>4. Calls[g_mutex] = "waiting"
    BY <2>2, <2>3 DEF Calls, CallState
  <2> QED
    BY <1>1, <2>1, <2>2, <2>4 DEF Service!Lose, Calls
<1> QED
  BY <1>3, <1>4

LEMMA StepServes ==
  ASSUME IInv, SuccessWasExecuted', [Next]_vars
  PROVE  [Service!Next]_Seen
<1>1. TypeOK /\ Fresh
  BY DEF IInv
<1>2. ASSUME NEW t \in Threads, OpenDevice(t)
      PROVE  Service!Reopen \/ UNCHANGED Seen
  <2>1. UNCHANGED <<req, executed, Calls>> /\ abandoned' = (abandoned /\ ~DeviceQuiet)
    BY <1>2, CallsFrame DEF OpenDevice, hostVars
  <2> QED
    BY <1>1, <2>1 DEF Service!Reopen, Seen, Calls, TypeOK
<1>3. ASSUME NEW t \in Threads, CloseDevice(t)
      PROVE  UNCHANGED Seen
  BY <1>3, CallsFrame DEF CloseDevice, hostVars, Seen
<1>4. ASSUME NEW t \in Threads, \E k \in {"verdict", "value"} : Call(t, k)
      PROVE  Service!Start(t)
  BY <1>1, <1>4, CallServes
<1>5. ASSUME NEW t \in Threads, ThreadStep(t)
      PROVE  [Service!Next]_Seen
  <2>1. CASE Clear(t) \/ Enter(t) \/ StartWrite(t) \/ StartRead(t) \/ Leave(t)
    BY <1>1, <2>1, InsideServes
  <2>2. CASE FailWrite(t) \/ EndWrite(t) \/ FailRead(t) \/ EndRead(t)
    BY <1>1, <2>2, EndServes DEF Service!Next
  <2>3. CASE WriteTimeout(t) \/ ReadTimeout(t)
    BY <1>1, <2>3, TimeoutServes DEF Service!Next
  <2>4. CASE Return(t)
    BY <1>1, <2>4, ReturnServes DEF Service!Next
  <2>5. CASE NullHandle(t)
    BY <1>1, <2>5, DieServes DEF NullHandle, Service!Next
  <2> QED
    BY <1>5, <2>1, <2>2, <2>3, <2>4, <2>5 DEF ThreadStep
<1>6. CASE Kill
  BY <1>1, <1>6, DieServes DEF Kill, Service!Next
<1>7. CASE SetReport \/ InReport \/ FwRead \/ FwSend \/ FwSendZlp \/ DeviceReset \/ Configure
  BY <1>7, CallsFrame DEF SetReport, InReport, FwRead, FwSend, FwSendZlp, DeviceReset,
     Configure, hostVars, Seen
<1>8. CASE FwExecute
  BY <1>8, ExecuteServes DEF Service!Next
<1>9. CASE BusReset
  BY <1>9, BusResetServes DEF Service!Next
<1>10. CASE UNCHANGED vars
  BY <1>10, CallsFrame DEF vars, hostVars, Seen
<1> QED
  BY <1>2, <1>3, <1>4, <1>5, <1>6, <1>7, <1>8, <1>9, <1>10 DEF Next, Service!Next

(* For its callers the link is the service: a call applies its own command  *)
(* once between its start and its end, and a successful end means that it   *)
(* was applied, whatever threads, driver and device do, except after an     *)
(* exchange that was given up and until the device is opened again quiet.   *)
THEOREM LinkImplementsService == Spec => ImplementsService
<1>1. IInv' => SuccessWasExecuted'
  BY DEF IInv
<1>2. IInv /\ [Next]_vars => [Service!Next]_Seen
  BY <1>1, NextInvariant, StepServes
<1>3. Spec => [][Service!Next]_Seen
  BY <1>2, Invariance, PTL DEF Spec
<1>4. [Service!Next]_Seen <=> [Service!Next]_(Service!service)
  BY DEF Seen, Calls, Service!service
<1> QED
  BY <1>3, <1>4, InitServes, PTL DEF Spec, ImplementsService, Service!Spec
==============================================================================
