---------------------------- MODULE UsbCoreProofs ----------------------------
(***************************************************************************)
(* Proofs about UsbCore, for any HID endpoints, report lengths, bank sizes *)
(* and numbers of banks, attempts, requests and bus resets.                *)
(***************************************************************************)
EXTENDS UsbCore, Iterations, SequenceTheorems

Bytes == Nat \X Nat
Places == Endpoints \cup {Control}
Jobs == [ep : Endpoints, rest : Seq(Bytes), zlp : BOOLEAN, tries : 1..Timeout, n : 0..EpSize]
Busy == {"space", "count", "load", "fill"}

-----------------------------------------------------------------------------
(* The endpoints.  While interrupts are off, UENUM names the endpoint of    *)
(* the send, and what was counted to fit still does: only the send itself   *)
(* puts bytes into a bank.                                                  *)

EndpointsTyped ==
  /\ uenum \in Places /\ irq \in BOOLEAN
  /\ bank \in [Places -> Seq(Bytes)]
  /\ queued \in [Places -> Seq(Seq(Bytes))]
  /\ loaded \in [Places -> Seq(Bytes)]
  /\ got \in [Places -> Seq(Seq(Bytes))]
  /\ enabled \in BOOLEAN /\ configured \in BOOLEAN
  /\ pc \in Busy \cup {"idle", "spin"}
  /\ job \in Jobs /\ sends \in Nat

Locked == pc \in {"count", "fill"} => ~irq /\ uenum = job.ep

Fits ==
  pc \in {"load", "fill"} => job.n <= Len(job.rest) /\ Len(bank[job.ep]) + job.n <= EpSize

(* The bank that is being filled counts if there is a byte in it.          *)
Started(b) == IF b = <<>> THEN 0 ELSE 1

BanksOK ==
  \A e \in Places : Len(queued[e]) + Started(bank[e]) <= Banks /\ Len(bank[e]) < EpSize

EndpointInv == EndpointsTyped /\ Locked /\ Fits /\ BanksOK

LEMMA EmptyTyped ==
  /\ Empty \in [Places -> Seq(Bytes)] /\ Empty \in [Places -> Seq(Seq(Bytes))]
  /\ \A e \in Places : Empty[e] = <<>>
BY DEF Empty, Places

LEMMA NoJobTyped == NoJob \in Jobs /\ NoJob.n = 0
BY CoreAssumption DEF NoJob, Jobs, Endpoints

LEMMA StartedIs == Started(<<>>) = 0 /\ \A b : Started(b) \in 0..1
BY DEF Started

LEMMA StartTyped ==
  ASSUME EndpointInv, NEW e \in Endpoints, NEW bytes \in Seq(Bytes), Start(e, bytes)
  PROVE  EndpointInv'
<1>1. /\ job' = [NoJob EXCEPT !.ep = e, !.rest = bytes] /\ pc' = "space" /\ sends' = sends + 1
      /\ UNCHANGED <<uenum, irq, fifo, line, state, seen>>
  BY DEF Start
<1>2. job' \in Jobs
  BY <1>1, NoJobTyped DEF Jobs
<1> QED
  BY <1>1, <1>2 DEF EndpointInv, EndpointsTyped, Locked, Fits, BanksOK, Busy, fifo, state, seen

(* What a step of Fill finds and does: the names of its LET. *)
Chunk  == SubSeq(job.rest, 1, job.n)
Rest   == SubSeq(job.rest, job.n + 1, Len(job.rest))
Filled == bank[job.ep] \o Chunk
Full   == Len(Filled) = EpSize
Zlp    == ~job.zlp /\ Full /\ Rest = <<>>

LEMMA FillFinds ==
  ASSUME EndpointInv, Fill
  PROVE  /\ pc = "fill" /\ job.ep \in Endpoints /\ uenum = job.ep
         /\ Len(queued[job.ep]) < Banks
         /\ job.n \in Nat /\ job.rest \in Seq(Bytes) /\ Len(job.rest) \in Nat
         /\ Chunk \in Seq(Bytes) /\ Len(Chunk) = job.n
         /\ \A i \in 1..Len(Chunk) : i \in 1..Len(job.rest) /\ Chunk[i] = job.rest[i]
         /\ Rest \in Seq(Bytes) /\ Len(Rest) = Len(job.rest) - job.n
         /\ \A i \in 1..Len(Rest) :
              job.n + i \in 1..Len(job.rest) /\ Rest[i] = job.rest[job.n + i]
         /\ bank[job.ep] \in Seq(Bytes) /\ Filled \in Seq(Bytes)
         /\ Len(Filled) = Len(bank[job.ep]) + job.n /\ Len(Filled) <= EpSize
<1>1. /\ pc = "fill" /\ StillWritable(uenum)
      /\ uenum = job.ep /\ job.ep \in Endpoints
      /\ job.rest \in Seq(Bytes) /\ job.n \in Nat /\ job.n <= Len(job.rest)
      /\ bank[job.ep] \in Seq(Bytes) /\ Len(bank[job.ep]) + job.n <= EpSize
  BY CoreAssumption DEF Fill, EndpointInv, EndpointsTyped, Locked, Fits, Jobs, Places
<1> DEFINE s == job.rest
           n == job.n
<1>2. Len(s) \in Nat /\ s \in Seq(Bytes) /\ n \in Nat /\ n <= Len(s)
  BY <1>1, LenProperties
<1>3. /\ \A i \in 1..n : i \in 1..Len(s) /\ s[i] \in Bytes
      /\ \A i \in n + 1..Len(s) : s[i] \in Bytes
  <2>1. \A i \in 1..Len(s) : s[i] \in Bytes
    BY <1>2, ElementOfSeq
  <2> QED
    BY <1>2, <2>1
<1>4. Chunk = SubSeq(s, 1, n) /\ Rest = SubSeq(s, n + 1, Len(s))
  BY DEF Chunk, Rest
<1> HIDE DEF s, n
<1>5. /\ Chunk \in Seq(Bytes) /\ Len(Chunk) = n
      /\ \A i \in 1..n : Chunk[i] = s[i]
  <2>1. /\ Chunk \in Seq(Bytes)
        /\ Len(Chunk) = IF 1 <= n THEN n - 1 + 1 ELSE 0
        /\ \A i \in 1..n - 1 + 1 : Chunk[i] = s[1 + i - 1]
    BY <1>2, <1>3, <1>4, SubSeqProperties
  <2> QED
    BY <1>2, <2>1
<1>6. /\ Rest \in Seq(Bytes) /\ Len(Rest) = Len(s) - n
      /\ \A i \in 1..Len(s) - n : n + i \in 1..Len(s) /\ Rest[i] = s[n + i]
  <2>1. /\ Rest \in Seq(Bytes)
        /\ Len(Rest) = IF n + 1 <= Len(s) THEN Len(s) - (n + 1) + 1 ELSE 0
        /\ \A i \in 1..Len(s) - (n + 1) + 1 : Rest[i] = s[(n + 1) + i - 1]
    BY <1>2, <1>3, <1>4, SubSeqProperties
  <2>2. \A i \in 1..Len(s) - n : (n + 1) + i - 1 = n + i /\ n + i \in 1..Len(s)
    BY <1>2
  <2>3. Len(s) - (n + 1) + 1 = Len(s) - n
    BY <1>2
  <2>4. Len(Rest) = Len(s) - n
    BY <1>2, <2>1
  <2>5. ASSUME NEW i \in 1..Len(s) - n PROVE Rest[i] = s[n + i]
    <3>1. Rest[i] = s[(n + 1) + i - 1]
      BY <2>1, <2>3
    <3>2. (n + 1) + i - 1 = n + i
      BY <2>2
    <3> QED
      BY <3>1, <3>2
  <2> QED
    BY <2>1, <2>2, <2>4, <2>5
<1>7. /\ Filled \in Seq(Bytes) /\ Len(Filled) = Len(bank[job.ep]) + Len(Chunk)
  BY <1>1, <1>5, ConcatProperties DEF Filled
<1>8. Len(queued[job.ep]) < Banks
  BY <1>1 DEF StillWritable, ReadWriteAllowed, BankFree
<1>9. Len(Filled) <= EpSize
  BY <1>1, <1>5, <1>7 DEF n
<1> QED
  BY <1>1, <1>2, <1>3, <1>5, <1>6, <1>7, <1>8, <1>9 DEF s, n

LEMMA FillDoes ==
  ASSUME EndpointInv, Fill
  PROVE  /\ irq' = TRUE /\ UNCHANGED <<uenum, sends, line, state, got>>
         /\ IF Releases(Full, Rest)
            THEN /\ bank' = [bank EXCEPT ![job.ep] = <<>>]
                 /\ queued' = [queued EXCEPT ![job.ep] = Append(@, Filled)]
            ELSE bank' = [bank EXCEPT ![job.ep] = Filled] /\ queued' = queued
         /\ loaded' = [loaded EXCEPT ![job.ep] = @ \o Chunk]
         /\ IF Rest = <<>> /\ ~Zlp
            THEN pc' = "idle" /\ job' = NoJob
            ELSE pc' = "space" /\ job' = [job EXCEPT !.rest = Rest, !.zlp = Zlp, !.n = 0]
<1>1. uenum = job.ep
  BY FillFinds
<1> QED
  BY <1>1 DEF Fill, UnlockEP, ReleaseTX, Chunk, Rest, Filled, Full, Zlp

LEMMA FillTyped ==
  ASSUME EndpointInv, Fill
  PROVE  EndpointInv'
<1> DEFINE e == job.ep
<1>1. /\ e \in Endpoints /\ e \in Places /\ Len(queued[e]) < Banks /\ Len(queued[e]) \in Nat
      /\ queued[e] \in Seq(Seq(Bytes)) /\ loaded[e] \in Seq(Bytes)
  BY FillFinds, LenProperties DEF Places, EndpointInv, EndpointsTyped
<1>2. Filled \in Seq(Bytes) /\ Len(Filled) \in Nat /\ Len(Filled) <= EpSize
  BY FillFinds, LenProperties
<1>3. bank' \in [Places -> Seq(Bytes)] /\ queued' \in [Places -> Seq(Seq(Bytes))]
  <2>1. Append(queued[e], Filled) \in Seq(Seq(Bytes)) /\ <<>> \in Seq(Bytes)
    BY <1>1, <1>2, AppendProperties
  <2> QED
    BY <1>1, <1>2, <2>1, FillDoes DEF EndpointInv, EndpointsTyped
<1>4. loaded' \in [Places -> Seq(Bytes)]
  <2>1. loaded[e] \o Chunk \in Seq(Bytes)
    BY <1>1, FillFinds, ConcatProperties
  <2> QED
    BY <1>1, <2>1, FillDoes DEF EndpointInv, EndpointsTyped
<1>5. job' \in Jobs /\ pc' \in {"idle", "space"}
  <2>1. job \in Jobs /\ Rest \in Seq(Bytes) /\ Zlp \in BOOLEAN /\ 0 \in 0..EpSize
    BY FillFinds, CoreAssumption DEF EndpointInv, EndpointsTyped, Zlp
  <2>2. [job EXCEPT !.rest = Rest, !.zlp = Zlp, !.n = 0] \in Jobs
    BY <2>1 DEF Jobs
  <2> QED
    BY <2>2, NoJobTyped, FillDoes
<1>6. BanksOK'
  <2> SUFFICES ASSUME NEW f \in Places
               PROVE  /\ Len(queued'[f]) + Started(bank'[f]) <= Banks
                      /\ Len(bank'[f]) < EpSize
    BY DEF BanksOK
  <2>1. /\ Len(queued[f]) + Started(bank[f]) <= Banks
        /\ Len(bank[f]) < EpSize
    BY DEF EndpointInv, BanksOK
  <2>2. Banks \in Nat /\ EpSize \in Nat \ {0}
    BY CoreAssumption
  <2>3. CASE f # e
    <3>1. queued'[f] = queued[f] /\ bank'[f] = bank[f]
      BY <2>3, FillDoes DEF EndpointInv, EndpointsTyped
    <3> QED
      BY <2>1, <3>1
  <2>4. CASE f = e /\ Releases(Full, Rest)
    <3>1. queued'[f] = Append(queued[e], Filled) /\ bank'[f] = <<>>
      BY <1>1, <2>4, FillDoes DEF EndpointInv, EndpointsTyped
    <3>2. Len(queued'[f]) = Len(queued[e]) + 1
      BY <1>1, <1>2, <3>1, AppendProperties
    <3>3. Len(queued[e]) + 1 <= Banks
      BY <1>1, <2>2
    <3> QED
      BY <1>1, <2>2, <3>1, <3>2, <3>3, StartedIs
  <2>5. CASE f = e /\ ~Releases(Full, Rest)
    <3>1. queued'[f] = queued[e] /\ bank'[f] = Filled
      BY <1>1, <2>5, FillDoes DEF EndpointInv, EndpointsTyped
    <3>2. Len(Filled) < EpSize
      BY <1>2, <2>2, <2>5 DEF Releases, Full
    <3> QED
      BY <1>1, <2>2, <3>1, <3>2, StartedIs
  <2> QED
    BY <2>3, <2>4, <2>5
<1> QED
  BY <1>3, <1>4, <1>5, <1>6, FillDoes
     DEF EndpointInv, EndpointsTyped, Locked, Fits, Busy, state

LEMMA RoomFits ==
  ASSUME NEW s \in Nat, NEW a \in Nat, NEW b \in Nat, a < s,
         NEW n, n = IF s - a > b THEN b ELSE s - a
  PROVE  n \in 0..s /\ n <= b /\ a + n <= s
OBVIOUS

LEMMA CountTyped ==
  ASSUME EndpointInv, CountSpace
  PROVE  EndpointInv'
<1>1. /\ pc = "count" /\ irq' = TRUE /\ UNCHANGED <<uenum, fifo, sends, line, state, seen>>
  BY DEF CountSpace, UnlockEP
<1>2. uenum = job.ep /\ job \in Jobs /\ job.ep \in Places /\ Len(job.rest) \in Nat
      /\ Len(bank[job.ep]) \in Nat
  BY <1>1, LenProperties DEF EndpointInv, EndpointsTyped, Locked, Jobs, Places
<1>3. EpSize \in Nat \ {0} /\ Timeout \in Nat \ {0}
  BY CoreAssumption
<1>4. CASE ReadWriteAllowed(uenum)
  <2> DEFINE room == EpSize - Len(bank[uenum])
             n == IF room > Len(job.rest) THEN Len(job.rest) ELSE room
  <2>1. job' = [job EXCEPT !.n = n] /\ pc' = "load"
    BY <1>4 DEF CountSpace
  <2>2. Len(bank[uenum]) < EpSize
    BY <1>4 DEF ReadWriteAllowed
  <2>3. n \in 0..EpSize /\ n <= Len(job.rest) /\ Len(bank[job.ep]) + n <= EpSize
    BY <1>2, <1>3, <2>2, RoomFits
  <2> HIDE DEF n
  <2>4. job' \in Jobs /\ job'.n = n /\ job'.ep = job.ep /\ job'.rest = job.rest
    BY <1>2, <2>1, <2>3 DEF Jobs
  <2> QED
    BY <1>1, <2>1, <2>3, <2>4
       DEF EndpointInv, EndpointsTyped, Locked, Fits, BanksOK, Busy, fifo, state, seen
<1>5. CASE ~ReadWriteAllowed(uenum)
  <2>1. NoSpace
    BY <1>5 DEF CountSpace
  <2>2. job' \in Jobs /\ pc' \in {"idle", "space"}
    <3>1. CASE job.tries = 1
      BY <2>1, <3>1, NoJobTyped DEF NoSpace
    <3>2. CASE job.tries # 1
      <4>1. job' = [job EXCEPT !.tries = @ - 1] /\ job.tries - 1 \in 1..Timeout
        BY <1>2, <1>3, <2>1, <3>2 DEF NoSpace, Jobs
      <4> QED
        BY <1>2, <2>1, <3>2, <4>1 DEF NoSpace, Jobs
    <3> QED
      BY <3>1, <3>2
  <2> QED
    BY <1>1, <2>2
       DEF EndpointInv, EndpointsTyped, Locked, Fits, BanksOK, Busy, fifo, state, seen
<1> QED
  BY <1>4, <1>5

LEMMA FlushTyped ==
  ASSUME EndpointInv, StartOfFrame
  PROVE  EndpointInv'
<1>1. /\ irq /\ uenum' = Serial /\ UsbFlush(Serial)
      /\ UNCHANGED <<irq, send, line, state, seen>>
  BY DEF StartOfFrame, Interrupt
<1>2. Serial \in Endpoints /\ Serial \in Places
  BY DEF Endpoints, Places
<1>3. pc \notin {"count", "fill"}
  BY <1>1 DEF EndpointInv, Locked
<1>4. CASE UNCHANGED fifo
  BY <1>1, <1>2, <1>3, <1>4
     DEF EndpointInv, EndpointsTyped, Locked, Fits, BanksOK, fifo, send, state, seen
<1>5. CASE ~UNCHANGED fifo
  <2>1. /\ BankFree(Serial) /\ bank[Serial] # <<>>
        /\ queued' = [queued EXCEPT ![Serial] = Append(@, bank[Serial])]
        /\ bank' = [bank EXCEPT ![Serial] = <<>>]
    BY <1>1, <1>5 DEF UsbFlush, ReleaseTX
  <2>2. /\ queued[Serial] \in Seq(Seq(Bytes)) /\ bank[Serial] \in Seq(Bytes)
        /\ Len(queued[Serial]) < Banks
    BY <1>2, <2>1 DEF EndpointInv, EndpointsTyped, BankFree
  <2>3. /\ Append(queued[Serial], bank[Serial]) \in Seq(Seq(Bytes))
        /\ Len(Append(queued[Serial], bank[Serial])) = Len(queued[Serial]) + 1
        /\ Len(queued[Serial]) \in Nat
    BY <2>2, AppendProperties, LenProperties
  <2>4. bank' \in [Places -> Seq(Bytes)] /\ queued' \in [Places -> Seq(Seq(Bytes))]
    <3>1. <<>> \in Seq(Bytes)
      OBVIOUS
    <3> QED
      BY <1>2, <2>1, <2>3, <3>1 DEF EndpointInv, EndpointsTyped
  <2>5. \A f \in Places :
          /\ f # Serial => queued'[f] = queued[f] /\ bank'[f] = bank[f]
          /\ f = Serial => /\ queued'[f] = Append(queued[Serial], bank[Serial])
                           /\ bank'[f] = <<>>
    BY <2>1 DEF EndpointInv, EndpointsTyped
  <2>6. Banks \in Nat /\ EpSize \in Nat \ {0} /\ Len(<<>>) = 0
    BY CoreAssumption
  <2>7. BanksOK'
    <3>1. Len(queued[Serial]) + 1 <= Banks
      BY <2>2, <2>3, <2>6
    <3> SUFFICES ASSUME NEW f \in Places
                 PROVE  Len(queued'[f]) + Started(bank'[f]) <= Banks /\ Len(bank'[f]) < EpSize
      BY DEF BanksOK
    <3>2. CASE f = Serial
      <4>1. Len(queued'[f]) = Len(queued[Serial]) + 1 /\ bank'[f] = <<>>
        BY <2>3, <2>5, <3>2
      <4> QED
        BY <2>3, <2>6, <3>1, <4>1, StartedIs
    <3>3. CASE f # Serial
      BY <2>5, <3>3 DEF EndpointInv, BanksOK
    <3> QED
      BY <3>2, <3>3
  <2>8. Fits'
    <3>1. pc' = pc /\ job' = job
      BY <1>1 DEF send
    <3>2. CASE pc \in {"load", "fill"}
      <4>1. /\ job.n <= Len(job.rest) /\ Len(bank[job.ep]) + job.n <= EpSize
            /\ job.ep \in Places /\ job.n \in 0..EpSize
        BY <3>2 DEF EndpointInv, EndpointsTyped, Fits, Jobs, Places
      <4>2. Len(bank'[job.ep]) + job.n <= EpSize
        BY <2>5, <2>6, <4>1
      <4> QED
        BY <3>1, <4>1, <4>2 DEF Fits
    <3> QED
      BY <3>1, <3>2 DEF Fits
  <2> QED
    BY <1>1, <1>2, <1>3, <2>4, <2>7, <2>8
       DEF EndpointInv, EndpointsTyped, Locked, send, state, seen
<1> QED
  BY <1>4, <1>5

(* Emptying every bank disturbs no send: what fitted into a bank with bytes *)
(* in it fits into an empty one.                                            *)
LEMMA RestartedTyped ==
  ASSUME EndpointInv, Restarted
  PROVE  /\ bank' \in [Places -> Seq(Bytes)] /\ queued' \in [Places -> Seq(Seq(Bytes))]
         /\ loaded' \in [Places -> Seq(Bytes)] /\ got' \in [Places -> Seq(Seq(Bytes))]
         /\ BanksOK'
         /\ UNCHANGED <<pc, job>> => Fits'
<1>1. bank' = Empty /\ queued' = Empty /\ loaded' = Empty /\ got' = Empty
  BY DEF Restarted
<1>2. Banks \in Nat /\ EpSize \in Nat \ {0} /\ Len(<<>>) = 0
  BY CoreAssumption
<1>3. BanksOK'
  BY <1>1, <1>2, EmptyTyped, StartedIs DEF BanksOK
<1>4. ASSUME UNCHANGED <<pc, job>> PROVE Fits'
  <2>1. job.ep \in Places /\ job.n \in 0..EpSize
    BY DEF EndpointInv, EndpointsTyped, Jobs, Places
  <2>2. Len(bank'[job.ep]) = 0
    BY <1>1, <1>2, <2>1, EmptyTyped
  <2> QED
    BY <1>2, <1>4, <2>1, <2>2 DEF EndpointInv, Fits
<1> QED
  BY <1>1, <1>3, <1>4, EmptyTyped

LEMMA TakeTyped ==
  ASSUME EndpointInv, NEW e \in Endpoints, HostTakes(e)
  PROVE  EndpointInv'
<1>1. /\ queued[e] # <<>>
      /\ got' = [got EXCEPT ![e] = Append(@, Head(queued[e]))]
      /\ queued' = [queued EXCEPT ![e] = Tail(@)]
      /\ UNCHANGED <<uenum, irq, bank, send, line, state, loaded>>
  BY DEF HostTakes
<1>2. /\ e \in Places /\ queued[e] \in Seq(Seq(Bytes)) /\ got[e] \in Seq(Seq(Bytes))
  BY DEF EndpointInv, EndpointsTyped, Places
<1>3. /\ Head(queued[e]) \in Seq(Bytes) /\ Tail(queued[e]) \in Seq(Seq(Bytes))
      /\ Len(Tail(queued[e])) = Len(queued[e]) - 1 /\ Len(queued[e]) \in Nat
      /\ Append(got[e], Head(queued[e])) \in Seq(Seq(Bytes))
  <2>1. /\ Head(queued[e]) \in Seq(Bytes) /\ Tail(queued[e]) \in Seq(Seq(Bytes))
        /\ Len(Tail(queued[e])) = Len(queued[e]) - 1 /\ Len(queued[e]) \in Nat
    BY <1>1, <1>2, HeadTailProperties, LenProperties
  <2> QED
    BY <1>2, <2>1, AppendProperties
<1>4. queued' \in [Places -> Seq(Seq(Bytes))] /\ got' \in [Places -> Seq(Seq(Bytes))]
  BY <1>1, <1>3 DEF EndpointInv, EndpointsTyped
<1>5. BanksOK'
  <2> SUFFICES ASSUME NEW f \in Places
               PROVE  /\ Len(queued'[f]) + Started(bank'[f]) <= Banks
                      /\ Len(bank'[f]) < EpSize
    BY DEF BanksOK
  <2>1. /\ Len(queued[f]) + Started(bank[f]) <= Banks
        /\ Len(bank[f]) < EpSize /\ bank' = bank
    BY <1>1 DEF EndpointInv, BanksOK
  <2>2. queued'[f] = IF f = e THEN Tail(queued[e]) ELSE queued[f]
    BY <1>1 DEF EndpointInv, EndpointsTyped
  <2>3. Banks \in Nat
    BY CoreAssumption
  <2>4. Started(bank[f]) \in 0..1
    BY StartedIs
  <2>5. CASE f = e
    <3>1. Len(queued'[f]) = Len(queued[e]) - 1
      BY <1>3, <2>2, <2>5
    <3> QED
      BY <1>3, <2>1, <2>3, <2>4, <2>5, <3>1
  <2>6. CASE f # e
    BY <2>1, <2>2, <2>6
  <2> QED
    BY <2>5, <2>6
<1> QED
  BY <1>1, <1>4, <1>5
     DEF EndpointInv, EndpointsTyped, Locked, Fits, send, state

LEMMA ReportBytes ==
  ASSUME EndpointInv, NEW m \in Nat
  PROVE  [i \in 1..m |-> <<sends + 1, i>>] \in Seq(Bytes)
<1>1. sends + 1 \in Nat
  BY DEF EndpointInv, EndpointsTyped
<1>2. \A i \in 1..m : <<sends + 1, i>> \in Bytes
  BY <1>1 DEF Bytes
<1> QED
  BY <1>2

LEMMA NextEndpointInv == EndpointInv /\ [Next]_vars => EndpointInv'
<1> SUFFICES ASSUME EndpointInv, [Next]_vars PROVE EndpointInv'
  OBVIOUS
<1>1. ASSUME NEW e \in Reports, SendReport(e) PROVE EndpointInv'
  <2>1. [i \in 1..ReportLen[e] |-> <<sends + 1, i>>] \in Seq(Bytes) /\ e \in Endpoints
    <3>1. ReportLen[e] \in Nat
      BY CoreAssumption
    <3> QED
      BY <3>1, ReportBytes DEF Endpoints
  <2> QED
    BY <1>1, <2>1, StartTyped DEF SendReport
<1>2. ASSUME NEW n \in WriteLens, SerialWrite(n) PROVE EndpointInv'
  <2>1. [i \in 1..n |-> <<sends + 1, i>>] \in Seq(Bytes) /\ Serial \in Endpoints
    <3>1. n \in Nat
      BY CoreAssumption
    <3> QED
      BY <3>1, ReportBytes DEF Endpoints
  <2> QED
    BY <1>2, <2>1, StartTyped DEF SerialWrite
<1>3. CASE LockForSpace \/ LockForLoad
  <2>1. /\ uenum' = job.ep /\ irq' = FALSE
        /\ \/ pc = "space" /\ pc' = "count"
           \/ pc = "load" /\ pc' = "fill"
        /\ UNCHANGED <<fifo, job, sends, line, state, seen>>
    BY <1>3 DEF LockForSpace, LockForLoad, LockEP
  <2>2. job.ep \in Places
    BY DEF EndpointInv, EndpointsTyped, Jobs, Places
  <2> QED
    BY <2>1, <2>2
       DEF EndpointInv, EndpointsTyped, Locked, Fits, BanksOK, Busy, fifo, state, seen
<1>4. CASE CountSpace
  BY <1>4, CountTyped
<1>5. CASE FillRefused
  BY <1>5 DEF FillRefused, UnlockEP, EndpointInv, EndpointsTyped, Locked, Fits, BanksOK, Busy,
              fifo, state, seen
<1>6. CASE Fill
  BY <1>6, FillTyped
<1>7. CASE StartOfFrame
  BY <1>7, FlushTyped
<1>8. CASE BusReset \/ SetConfiguration
  <2>1. /\ irq /\ uenum' \in Places /\ Restarted
        /\ enabled' \in BOOLEAN /\ configured' \in BOOLEAN
        /\ UNCHANGED <<irq, send>>
    BY <1>8, CoreAssumption DEF BusReset, SetConfiguration, Interrupt, Places
  <2> QED
    BY <2>1, RestartedTyped DEF EndpointInv, EndpointsTyped, Locked, send
<1>9. ASSUME irq, uenum' = Control, UNCHANGED <<irq, fifo, send, state, seen>>
      PROVE  EndpointInv'
  BY <1>9 DEF EndpointInv, EndpointsTyped, Locked, Fits, BanksOK, Places, fifo, send, state, seen
<1>10. CASE ControlRequest \/ SetLineCoding \/ \E s \in LineStates : SetControlLineState(s)
  BY <1>9, <1>10 DEF ControlRequest, SetLineCoding, SetControlLineState, Interrupt
<1>11. CASE SoftReset
  BY <1>11 DEF SoftReset, EndpointInv, EndpointsTyped, Locked, Fits, BanksOK, Busy, fifo, state,
               seen
<1>12. CASE WatchdogBites
  <2>1. /\ uenum' \in Places /\ irq' = TRUE /\ Restarted
        /\ enabled' = FALSE /\ configured' = FALSE
        /\ pc' = "idle" /\ job' \in Jobs /\ UNCHANGED sends
    BY <1>12, NoJobTyped DEF WatchdogBites, Places
  <2> QED
    BY <2>1, RestartedTyped DEF EndpointInv, EndpointsTyped, Locked, Fits
<1>13. ASSUME NEW e \in Endpoints, HostTakes(e) PROVE EndpointInv'
  BY <1>13, TakeTyped
<1>14. CASE UNCHANGED vars
  BY <1>14 DEF vars, EndpointInv, EndpointsTyped, Locked, Fits, BanksOK, fifo, send, state, seen
<1> QED
  BY <1>1, <1>2, <1>3, <1>4, <1>5, <1>6, <1>7, <1>8, <1>10, <1>11, <1>12, <1>13, <1>14
     DEF Next, Sending

LEMMA InitEndpointInv == Init => EndpointInv
<1> SUFFICES ASSUME Init PROVE EndpointInv
  OBVIOUS
<1>1. Banks \in Nat /\ EpSize \in Nat \ {0} /\ Len(<<>>) = 0
  BY CoreAssumption
<1>2. BanksOK
  BY <1>1, EmptyTyped, StartedIs DEF Init, BanksOK
<1> QED
  BY <1>2, EmptyTyped, NoJobTyped DEF Init, EndpointInv, EndpointsTyped, Locked, Fits, Places

LEMMA EndpointsInvariance == Spec => []EndpointInv
BY InitEndpointInv, NextEndpointInv, PTL DEF Spec

-----------------------------------------------------------------------------
(* The watchdog.  A boot key lies in memory only between the close of the   *)
(* port and its next open; under it an old bootloader's word is backed up,  *)
(* and the saved watchdog was off unless a touch was repeated.              *)

Marks == {"off", "15ms", "120ms"}

LineTyped ==
  /\ lineState \in 0..3 /\ rate1200 \in BOOLEAN /\ again \in BOOLEAN
  /\ word \in {"data", "key", "zero"} /\ backup \in {"data", "zero"}
  /\ WDTCSR \in Marks /\ wdtcsr_save \in Marks

KeyOnlyClosed == word = "key" => ~Dtr(lineState) /\ WDTCSR # "off"

BackedUp == ~NewBoot => word # "zero" /\ (word = "key" => backup = "data")

Disarmed ==
  ~again /\ pc # "spin" => IF word = "key" THEN wdtcsr_save = "off" ELSE WDTCSR = "off"

LineInv == LineTyped /\ KeyOnlyClosed /\ BackedUp /\ Disarmed

LEMMA LineSame ==
  ASSUME LineInv, UNCHANGED line, pc' # "spin", pc # "spin"
  PROVE  LineInv'
BY DEF LineInv, LineTyped, KeyOnlyClosed, BackedUp, Disarmed, line, Dtr

LEMMA RequestKeepsLine ==
  ASSUME LineInv, NEW s \in LineStates, SetControlLineState(s)
  PROVE  LineInv'
<1> USE DEF LineInv, LineTyped, KeyOnlyClosed, BackedUp, Disarmed, Marks
<1>0. s \in 0..3 /\ lineState' = s /\ UNCHANGED <<rate1200, pc>> /\ NewBoot \in BOOLEAN
  BY CoreAssumption DEF SetControlLineState, send
<1>1. CASE ~Dtr(s) /\ Touch
  <2>1. /\ word' = "key" /\ WDTCSR' = "120ms" /\ wdtcsr_save' = WDTCSR
        /\ again' = (again \/ word = "key")
        /\ backup' = IF NewBoot \/ word = "key" THEN backup ELSE word
    BY <1>1 DEF Touch, Backup
  <2>2. ~Dtr(lineState')
    BY <1>0, <1>1
  <2>3. backup' \in {"data", "zero"} /\ (~NewBoot => backup' = "data")
    BY <2>1
  <2> QED
    BY <1>0, <2>1, <2>2, <2>3
<1>2. CASE word = "key" /\ Cancel
  <2>1. /\ WDTCSR' = wdtcsr_save /\ word' = (IF NewBoot THEN "zero" ELSE backup)
        /\ UNCHANGED <<backup, wdtcsr_save, again>>
    BY <1>2 DEF Cancel
  <2> QED
    BY <1>0, <1>2, <2>1
<1>3. CASE word # "key" /\ UNCHANGED <<word, backup, WDTCSR, wdtcsr_save, again>>
  BY <1>0, <1>3
<1> QED
  BY <1>1, <1>2, <1>3 DEF SetControlLineState

LEMMA NextLineInv == LineInv /\ [Next]_vars => LineInv'
<1> SUFFICES ASSUME LineInv, [Next]_vars PROVE LineInv'
  OBVIOUS
<1>1. ASSUME UNCHANGED line, pc' # "spin", pc # "spin" PROVE LineInv'
  BY <1>1, LineSame
<1>2. ASSUME UNCHANGED <<line, pc>> PROVE LineInv'
  BY <1>2 DEF LineInv, LineTyped, KeyOnlyClosed, BackedUp, Disarmed, line, Dtr
<1>3. CASE (\E e \in Reports : SendReport(e)) \/ (\E n \in WriteLens : SerialWrite(n))
  BY <1>1, <1>3 DEF SendReport, SerialWrite, Start
<1>4. CASE LockForSpace \/ LockForLoad \/ FillRefused
  BY <1>1, <1>4 DEF LockForSpace, LockForLoad, FillRefused
<1>5. CASE CountSpace
  BY <1>1, <1>5 DEF CountSpace, NoSpace
<1>6. CASE Fill
  BY <1>1, <1>6 DEF Fill
<1>7. CASE StartOfFrame \/ BusReset \/ SetConfiguration \/ ControlRequest
  BY <1>2, <1>7 DEF StartOfFrame, BusReset, SetConfiguration, ControlRequest, send
<1>8. CASE SetLineCoding
  BY <1>8 DEF SetLineCoding, send, LineInv, LineTyped, KeyOnlyClosed, BackedUp, Disarmed
<1>9. ASSUME NEW s \in LineStates, SetControlLineState(s) PROVE LineInv'
  BY <1>9, RequestKeepsLine
<1>10. CASE SoftReset
  BY <1>10 DEF SoftReset, LineInv, LineTyped, KeyOnlyClosed, BackedUp, Disarmed, Marks
<1>11. CASE WatchdogBites
  <2>1. /\ lineState' = 0 /\ rate1200' = FALSE /\ again' = FALSE
        /\ word' = "data" /\ backup' = "zero" /\ WDTCSR' = "off" /\ wdtcsr_save' = "off"
    BY <1>11 DEF WatchdogBites
  <2>2. LineTyped'
    <3>1. 0 \in 0..3
      OBVIOUS
    <3> QED
      BY <2>1, <3>1, Zenon DEF LineTyped, Marks
  <2>3. KeyOnlyClosed' /\ BackedUp' /\ Disarmed'
    BY <2>1 DEF KeyOnlyClosed, BackedUp, Disarmed
  <2> QED
    BY <2>2, <2>3 DEF LineInv
<1>12. ASSUME NEW e \in Endpoints, HostTakes(e) PROVE LineInv'
  BY <1>2, <1>12 DEF HostTakes, send
<1>13. CASE UNCHANGED vars
  BY <1>2, <1>13 DEF vars, send
<1> QED
  BY <1>3, <1>4, <1>5, <1>6, <1>7, <1>8, <1>9, <1>10, <1>11, <1>12, <1>13 DEF Next, Sending

LEMMA LineInvariance == Spec => []LineInv
<1>1. ASSUME Init PROVE LineInv
  <2>1. /\ lineState = 0 /\ rate1200 = FALSE /\ again = FALSE
        /\ word = "data" /\ backup = "zero" /\ WDTCSR = "off" /\ wdtcsr_save = "off"
    BY <1>1 DEF Init
  <2>2. LineTyped
    <3>1. 0 \in 0..3
      OBVIOUS
    <3> QED
      BY <2>1, <3>1, Zenon DEF LineTyped, Marks
  <2>3. KeyOnlyClosed /\ BackedUp /\ Disarmed
    BY <2>1 DEF KeyOnlyClosed, BackedUp, Disarmed
  <2> QED
    BY <2>2, <2>3 DEF LineInv
<1> QED
  BY <1>1, NextLineInv, PTL DEF Spec

(* Registers, banks, jobs and watchdog keep their types and bounds: no bank *)
(* overflows, whatever the interrupts do to UENUM.                          *)
THEOREM TypeCorrect == Spec => []TypeOK
<1>1. EndpointInv /\ LineInv => TypeOK
  BY DEF EndpointInv, EndpointsTyped, BanksOK, Started, Jobs, Busy, Places, LineInv, LineTyped,
         Marks, TypeOK
<1> QED
  BY <1>1, EndpointsInvariance, LineInvariance, PTL

(* With the port open there is no boot key in memory.                       *)
THEOREM OpenPortHasNoKey == Spec => []TouchUndone
<1>1. LineInv => TouchUndone
  BY DEF LineInv, LineTyped, KeyOnlyClosed, BackedUp, TouchUndone
<1> QED
  BY <1>1, LineInvariance, PTL

(* A boot key is never left behind without a watchdog that takes it.        *)
THEOREM KeyHasWatchdog == Spec => []KeyIsArmed
<1>1. LineInv => KeyIsArmed
  BY DEF LineInv, KeyOnlyClosed, KeyIsArmed
<1> QED
  BY <1>1, LineInvariance, PTL

(* A single touch is undone by the port being opened again.                 *)
THEOREM OpenPortDisarms == Spec => []TouchCancelled
<1>1. LineInv => TouchCancelled
  BY DEF LineInv, LineTyped, KeyOnlyClosed, Disarmed, TouchCancelled
<1> QED
  BY <1>1, LineInvariance, PTL

-----------------------------------------------------------------------------
(* The HID endpoints.  Their bank is empty whenever no report is being      *)
(* filled in, so that a report fits at once and is released at once.        *)

Whole(e, p, s) == p = [j \in 1..ReportLen[e] |-> <<s, j>>]
Packet(e, p) == p # <<>> => \E s \in 1..sends : Whole(e, p, s)

PacketsWhole ==
  \A e \in Reports :
    /\ bank[e] = <<>>
    /\ \A i \in 1..Len(queued[e]) : Packet(e, queued[e][i])
    /\ \A i \in 1..Len(got[e]) : Packet(e, got[e][i])

(* What is left to send is all of the report, or the empty packet after it. *)
JobWhole ==
  pc \in Busy /\ job.ep \in Reports =>
    /\ sends \in Nat \ {0}
    /\ IF job.zlp THEN job.rest = <<>> ELSE Whole(job.ep, job.rest, sends)
    /\ pc \in {"load", "fill"} => job.n = Len(job.rest)

ReportInv == PacketsWhole /\ JobWhole

LEMMA WholeLen ==
  ASSUME NEW e \in Reports, NEW p, NEW s, Whole(e, p, s)
  PROVE  Len(p) = ReportLen[e] /\ Len(p) \in 1..EpSize
<1>1. ReportLen[e] \in 1..EpSize /\ EpSize \in Nat
  BY CoreAssumption
<1>2. DOMAIN p = 1..ReportLen[e] /\ p = [j \in 1..ReportLen[e] |-> <<s, j>>]
  BY DEF Whole
<1> QED
  BY <1>1, <1>2

LEMMA PacketsSame ==
  ASSUME EndpointInv, PacketsWhole, UNCHANGED <<bank, queued, got>>, sends' \in Nat, sends <= sends'
  PROVE  PacketsWhole'
<1>1. 1..sends \subseteq 1..sends'
  BY DEF EndpointInv, EndpointsTyped
<1>2. ASSUME NEW e, NEW p, Packet(e, p) PROVE p # <<>> => \E s \in 1..sends' : Whole(e, p, s)
  BY <1>1, <1>2 DEF Packet
<1>3. ASSUME NEW e \in Reports
      PROVE  /\ bank'[e] = <<>>
             /\ \A i \in 1..Len(queued'[e]) :
                  queued'[e][i] # <<>> => \E s \in 1..sends' : Whole(e, queued'[e][i], s)
             /\ \A i \in 1..Len(got'[e]) :
                  got'[e][i] # <<>> => \E s \in 1..sends' : Whole(e, got'[e][i], s)
  BY <1>2 DEF PacketsWhole
<1> QED
  BY <1>3 DEF PacketsWhole, Packet, Whole

LEMMA PacketsRestarted ==
  ASSUME Restarted PROVE PacketsWhole'
<1>1. \A e \in Reports : bank'[e] = <<>> /\ Len(queued'[e]) = 0 /\ Len(got'[e]) = 0
  BY EmptyTyped DEF Restarted, Places, Endpoints
<1> QED
  BY <1>1 DEF PacketsWhole

LEMMA PacketsAppended ==
  ASSUME EndpointInv, PacketsWhole, NEW p \in Seq(Bytes), NEW f \in Places,
         f \in Reports => Packet(f, p),
         \A e \in Reports : bank'[e] = <<>>,
         queued' = [queued EXCEPT ![f] = Append(@, p)], UNCHANGED <<got, sends>>
  PROVE  PacketsWhole'
<1> SUFFICES ASSUME NEW e \in Reports
             PROVE  /\ \A i \in 1..Len(queued'[e]) : Packet(e, queued'[e][i])
                    /\ \A i \in 1..Len(got'[e]) : Packet(e, got'[e][i])
  BY DEF PacketsWhole, Packet
<1>1. queued[e] \in Seq(Seq(Bytes)) /\ e \in Places
  BY DEF EndpointInv, EndpointsTyped, Places, Endpoints
<1>2. \A i \in 1..Len(got'[e]) : Packet(e, got'[e][i])
  BY DEF PacketsWhole
<1>3. \A i \in 1..Len(queued[e]) : Packet(e, queued[e][i])
  BY DEF PacketsWhole
<1>4. CASE e # f
  <2>1. queued'[e] = queued[e]
    BY <1>4 DEF EndpointInv, EndpointsTyped
  <2> QED
    BY <1>2, <1>3, <2>1
<1>5. CASE e = f
  <2>1. queued'[e] = Append(queued[e], p)
    BY <1>1, <1>5 DEF EndpointInv, EndpointsTyped
  <2>2. /\ Len(queued'[e]) = Len(queued[e]) + 1 /\ Len(queued[e]) \in Nat
        /\ \A i \in 1..Len(queued[e]) : queued'[e][i] = queued[e][i]
        /\ queued'[e][Len(queued[e]) + 1] = p
    BY <1>1, <2>1, AppendProperties, LenProperties
  <2>3. ASSUME NEW i \in 1..Len(queued'[e]) PROVE Packet(e, queued'[e][i])
    <3>1. CASE i = Len(queued[e]) + 1
      BY <1>5, <2>2, <3>1
    <3>2. CASE i # Len(queued[e]) + 1
      <4>1. i \in 1..Len(queued[e])
        BY <2>2, <3>2
      <4> QED
        BY <1>3, <2>2, <4>1
    <3> QED
      BY <3>1, <3>2
  <2> QED
    BY <1>2, <2>3
<1> QED
  BY <1>4, <1>5

LEMMA StartWhole ==
  ASSUME EndpointInv, ReportInv, NEW e \in Endpoints, NEW bytes, Start(e, bytes),
         e \in Reports => Whole(e, bytes, sends + 1)
  PROVE  ReportInv'
<1>1. /\ job' = [NoJob EXCEPT !.ep = e, !.rest = bytes] /\ pc' = "space" /\ sends' = sends + 1
      /\ UNCHANGED <<bank, queued, got>>
  BY DEF Start, fifo, seen
<1>2. sends \in Nat
  BY DEF EndpointInv, EndpointsTyped
<1>3. PacketsWhole'
  BY <1>1, <1>2, PacketsSame DEF ReportInv
<1>4. job'.ep = e /\ job'.rest = bytes /\ job'.zlp = FALSE
  BY <1>1 DEF NoJob
<1>5. JobWhole'
  BY <1>1, <1>2, <1>4 DEF JobWhole, Whole
<1> QED
  BY <1>3, <1>5 DEF ReportInv

LEMMA CountWhole ==
  ASSUME EndpointInv, ReportInv, CountSpace
  PROVE  ReportInv'
<1>1. /\ pc = "count" /\ UNCHANGED <<bank, queued, got, sends>> /\ sends \in Nat
  BY DEF CountSpace, fifo, seen, EndpointInv, EndpointsTyped
<1>2. PacketsWhole'
  BY <1>1, PacketsSame DEF ReportInv
<1>3. CASE ~ReadWriteAllowed(uenum)
  <2>1. NoSpace
    BY <1>3 DEF CountSpace
  <2>2. \/ pc' = "idle"
        \/ pc' = "space" /\ job'.ep = job.ep /\ job'.zlp = job.zlp /\ job'.rest = job.rest
    BY <2>1 DEF NoSpace, EndpointInv, EndpointsTyped, Jobs
  <2>3. JobWhole'
    BY <1>1, <2>2 DEF ReportInv, JobWhole, Busy, Whole
  <2> QED
    BY <1>2, <2>3 DEF ReportInv
<1>4. CASE ReadWriteAllowed(uenum)
  <2> DEFINE room == EpSize - Len(bank[uenum])
             n == IF room > Len(job.rest) THEN Len(job.rest) ELSE room
  <2>1. job' = [job EXCEPT !.n = n] /\ pc' = "load"
    BY <1>4 DEF CountSpace
  <2>2. ASSUME job.ep \in Reports PROVE n = Len(job.rest)
    <3>1. uenum = job.ep /\ bank[uenum] = <<>>
      BY <1>1, <2>2 DEF EndpointInv, Locked, ReportInv, PacketsWhole
    <3>2. Len(job.rest) \in 0..EpSize
      <4>1. CASE job.zlp
        BY <1>1, <2>2, <4>1, CoreAssumption DEF ReportInv, JobWhole, Busy
      <4>2. CASE ~job.zlp
        BY <1>1, <2>2, <4>2, WholeLen, CoreAssumption DEF ReportInv, JobWhole, Busy
      <4> QED
        BY <4>1, <4>2
    <3>3. EpSize \in Nat /\ Len(<<>>) = 0
      BY CoreAssumption
    <3> QED
      BY <3>1, <3>2, <3>3
  <2> HIDE DEF n
  <2>3. /\ job'.ep = job.ep /\ job'.rest = job.rest /\ job'.zlp = job.zlp /\ job'.n = n
    BY <2>1 DEF EndpointInv, EndpointsTyped, Jobs
  <2>4. JobWhole'
    BY <1>1, <2>1, <2>2, <2>3 DEF ReportInv, JobWhole, Busy, Whole
  <2> QED
    BY <1>2, <2>4 DEF ReportInv
<1> QED
  BY <1>3, <1>4

LEMMA EmptyConcat ==
  ASSUME NEW a \in Seq(Bytes), NEW b \in Seq(Bytes), NEW c \in Seq(Bytes), a = <<>>,
         Len(b) = Len(c), \A i \in 1..Len(b) : b[i] = c[i]
  PROVE  a \o b = c
<1>1. Len(b) \in Nat /\ Len(c) \in Nat /\ Len(a) = 0
  BY LenProperties
<1>2. a \o b \in Seq(Bytes) /\ Len(a \o b) = Len(b)
  BY <1>1, ConcatProperties
<1>3. ASSUME NEW i \in 1..Len(a \o b) PROVE (a \o b)[i] = c[i]
  <2>1. i \in 1..Len(a) + Len(b) /\ ~(i <= Len(a)) /\ i - Len(a) = i
    BY <1>1, <1>2
  <2>2. (a \o b)[i] = b[i - Len(a)]
    BY <2>1, ConcatProperties
  <2> QED
    BY <1>2, <2>1, <2>2
<1> QED
  BY <1>2, <1>3, SeqEqual

LEMMA FillBanks ==
  ASSUME EndpointInv, Fill, NEW e \in Reports
  PROVE  /\ e # job.ep => bank'[e] = bank[e]
         /\ e = job.ep /\ Releases(Full, Rest) => bank'[e] = <<>>
<1>1. e \in Places /\ bank \in [Places -> Seq(Bytes)]
  BY DEF EndpointInv, EndpointsTyped, Places, Endpoints
<1>2. CASE Releases(Full, Rest)
  <2>1. bank' = [bank EXCEPT ![job.ep] = <<>>]
    BY <1>2, FillDoes
  <2> QED
    BY <1>1, <2>1
<1>3. CASE ~Releases(Full, Rest)
  <2>1. bank' = [bank EXCEPT ![job.ep] = Filled]
    BY <1>3, FillDoes
  <2> QED
    BY <1>1, <1>3, <2>1
<1> QED
  BY <1>2, <1>3

LEMMA FillWhole ==
  ASSUME EndpointInv, ReportInv, Fill
  PROVE  ReportInv'
<1>1. /\ pc = "fill" /\ job.ep \in Places /\ Filled \in Seq(Bytes) /\ UNCHANGED <<got, sends>>
      /\ sends \in Nat
  BY FillFinds, FillDoes DEF Places, EndpointInv, EndpointsTyped
<1>2. CASE job.ep \in Reports
  <2>1. /\ bank[job.ep] = <<>> /\ job.n = Len(job.rest) /\ sends \in Nat \ {0}
        /\ IF job.zlp THEN job.rest = <<>> ELSE Whole(job.ep, job.rest, sends)
    BY <1>1, <1>2 DEF ReportInv, PacketsWhole, JobWhole, Busy
  <2>2. Rest = <<>>
    <3>1. Rest \in Seq(Bytes) /\ Len(Rest) = 0
      BY <2>1, FillFinds
    <3> QED
      BY <3>1, EmptySeq
  <2>3. Filled = job.rest
    BY <2>1, FillFinds, EmptyConcat DEF Filled
  <2>4. Releases(Full, Rest)
    BY <1>2, <2>2, CoreAssumption DEF Releases
  <2>5. Packet(job.ep, Filled)
    BY <2>1, <2>3 DEF Packet
  <2>6. \A e \in Reports : bank'[e] = <<>>
    BY <2>4, FillBanks DEF ReportInv, PacketsWhole
  <2>7. queued' = [queued EXCEPT ![job.ep] = Append(@, Filled)]
    BY <2>4, FillDoes
  <2>8. PacketsWhole'
    BY <1>1, <2>5, <2>6, <2>7, PacketsAppended DEF ReportInv
  <2>9. JobWhole'
    <3>1. CASE ~Zlp
      BY <2>2, <3>1, FillDoes DEF JobWhole, Busy
    <3>2. CASE Zlp
      <4>1. pc' = "space" /\ job' = [job EXCEPT !.rest = Rest, !.zlp = Zlp, !.n = 0]
        BY <3>2, FillDoes
      <4>2. job'.zlp /\ job'.rest = <<>>
        BY <2>2, <3>2, <4>1 DEF EndpointInv, EndpointsTyped, Jobs
      <4> QED
        BY <1>1, <2>1, <4>1, <4>2 DEF JobWhole
    <3> QED
      BY <3>1, <3>2
  <2> QED
    BY <2>8, <2>9 DEF ReportInv
<1>3. CASE job.ep \notin Reports
  <2>1. \A e \in Reports : bank'[e] = <<>>
    BY <1>3, FillBanks DEF ReportInv, PacketsWhole
  <2>2. PacketsWhole'
    <3>1. CASE Releases(Full, Rest)
      BY <1>1, <1>3, <2>1, <3>1, FillDoes, PacketsAppended DEF ReportInv
    <3>2. CASE ~Releases(Full, Rest)
      BY <1>1, <2>1, <3>2, FillDoes DEF ReportInv, PacketsWhole, Packet
    <3> QED
      BY <3>1, <3>2
  <2>3. JobWhole'
    <3>1. \/ pc' = "idle"
          \/ pc' = "space" /\ job' = [job EXCEPT !.rest = Rest, !.zlp = Zlp, !.n = 0]
      BY FillDoes
    <3>2. pc' = "idle" \/ job'.ep = job.ep
      BY <3>1 DEF EndpointInv, EndpointsTyped, Jobs
    <3> QED
      BY <1>3, <3>2 DEF JobWhole, Busy
  <2> QED
    BY <2>2, <2>3 DEF ReportInv
<1> QED
  BY <1>2, <1>3

LEMMA FlushWhole ==
  ASSUME EndpointInv, ReportInv, StartOfFrame
  PROVE  ReportInv'
<1>1. UsbFlush(Serial) /\ UNCHANGED <<pc, job, sends, got>> /\ sends \in Nat
  BY DEF StartOfFrame, send, seen, EndpointInv, EndpointsTyped
<1>2. JobWhole'
  BY <1>1 DEF ReportInv, JobWhole, Busy, Whole
<1>3. CASE UNCHANGED fifo
  BY <1>1, <1>2, <1>3, PacketsSame DEF ReportInv, fifo
<1>4. CASE ~UNCHANGED fifo
  <2>1. /\ queued' = [queued EXCEPT ![Serial] = Append(@, bank[Serial])]
        /\ bank' = [bank EXCEPT ![Serial] = <<>>]
    BY <1>1, <1>4 DEF UsbFlush, ReleaseTX
  <2>2. Serial \in Places /\ bank[Serial] \in Seq(Bytes) /\ Serial \notin Reports
    BY CoreAssumption DEF EndpointInv, EndpointsTyped, Places, Endpoints
  <2>3. \A e \in Reports : bank'[e] = <<>>
    BY <2>1, <2>2 DEF ReportInv, PacketsWhole, EndpointInv, EndpointsTyped
  <2>4. PacketsWhole'
    BY <1>1, <2>1, <2>2, <2>3, PacketsAppended DEF ReportInv
  <2> QED
    BY <1>2, <2>4 DEF ReportInv
<1> QED
  BY <1>3, <1>4

LEMMA TakeWhole ==
  ASSUME EndpointInv, ReportInv, NEW f \in Endpoints, HostTakes(f)
  PROVE  ReportInv'
<1>1. /\ queued[f] # <<>> /\ UNCHANGED <<pc, job, sends, bank>>
      /\ got' = [got EXCEPT ![f] = Append(@, Head(queued[f]))]
      /\ queued' = [queued EXCEPT ![f] = Tail(@)]
  BY DEF HostTakes, send
<1>2. JobWhole'
  BY <1>1 DEF ReportInv, JobWhole, Busy, Whole
<1>3. ASSUME NEW e \in Reports
      PROVE  /\ bank'[e] = <<>>
             /\ \A i \in 1..Len(queued'[e]) : Packet(e, queued'[e][i])
             /\ \A i \in 1..Len(got'[e]) : Packet(e, got'[e][i])
  <2>1. /\ bank'[e] = <<>> /\ e \in Places
        /\ \A i \in 1..Len(queued[e]) : Packet(e, queued[e][i])
        /\ \A i \in 1..Len(got[e]) : Packet(e, got[e][i])
    BY <1>1 DEF ReportInv, PacketsWhole, Places, Endpoints
  <2>2. CASE e # f
    <3>1. queued'[e] = queued[e] /\ got'[e] = got[e]
      BY <1>1, <2>2 DEF EndpointInv, EndpointsTyped
    <3> QED
      BY <2>1, <3>1
  <2>3. CASE e = f
    <3> DEFINE q == queued[e]
               g == got[e]
    <3>1. q \in Seq(Seq(Bytes)) /\ g \in Seq(Seq(Bytes)) /\ q # <<>>
      BY <1>1, <2>1, <2>3 DEF EndpointInv, EndpointsTyped
    <3>2. queued'[e] = Tail(q) /\ got'[e] = Append(g, Head(q))
      BY <1>1, <2>1, <2>3 DEF EndpointInv, EndpointsTyped
    <3>3. /\ Len(q) \in Nat \ {0} /\ Len(g) \in Nat
          /\ Head(q) = q[1] /\ Head(q) \in Seq(Bytes)
          /\ Len(Tail(q)) = Len(q) - 1
          /\ \A i \in 1..Len(Tail(q)) : Tail(q)[i] = q[i + 1]
      BY <3>1, HeadTailProperties, LenProperties, EmptySeq
    <3>4. /\ Len(got'[e]) = Len(g) + 1
          /\ \A i \in 1..Len(g) : got'[e][i] = g[i]
          /\ got'[e][Len(g) + 1] = q[1]
      BY <3>1, <3>2, <3>3, AppendProperties
    <3> HIDE DEF q, g
    <3>5. ASSUME NEW i \in 1..Len(queued'[e]) PROVE Packet(e, queued'[e][i])
      <4>1. i + 1 \in 1..Len(q) /\ queued'[e][i] = q[i + 1]
        BY <3>2, <3>3
      <4> QED
        BY <2>1, <4>1 DEF q
    <3>6. ASSUME NEW i \in 1..Len(got'[e]) PROVE Packet(e, got'[e][i])
      <4>1. CASE i = Len(g) + 1
        <5>1. got'[e][i] = q[1] /\ 1 \in 1..Len(q)
          BY <3>3, <3>4, <4>1
        <5> QED
          BY <2>1, <5>1 DEF q
      <4>2. CASE i # Len(g) + 1
        <5>1. i \in 1..Len(g) /\ got'[e][i] = g[i]
          BY <3>3, <3>4, <4>2
        <5> QED
          BY <2>1, <5>1 DEF g
      <4> QED
        BY <4>1, <4>2
    <3> QED
      BY <2>1, <3>5, <3>6
  <2> QED
    BY <2>2, <2>3
<1>4. PacketsWhole'
  BY <1>1, <1>3 DEF PacketsWhole, Packet
<1> QED
  BY <1>2, <1>4 DEF ReportInv

LEMMA NextReportInv == EndpointInv /\ ReportInv /\ [Next]_vars => ReportInv'
<1> SUFFICES ASSUME EndpointInv, ReportInv, [Next]_vars PROVE ReportInv'
  OBVIOUS
<1>1. ASSUME NEW e \in Reports, SendReport(e) PROVE ReportInv'
  BY <1>1, StartWhole DEF SendReport, Whole, Endpoints
<1>2. ASSUME NEW n \in WriteLens, SerialWrite(n) PROVE ReportInv'
  BY <1>2, StartWhole, CoreAssumption DEF SerialWrite, Endpoints
<1>3. ASSUME UNCHANGED <<bank, queued, got, job, sends>>,
             \/ pc' = pc
             \/ pc' \notin {"load", "fill"} /\ (pc' \in Busy => pc \in Busy)
             \/ pc = "load" /\ pc' = "fill"
      PROVE  ReportInv'
  <2>1. sends \in Nat
    BY DEF EndpointInv, EndpointsTyped
  <2>2. PacketsWhole'
    BY <1>3, <2>1, PacketsSame DEF ReportInv
  <2>3. JobWhole'
    BY <1>3 DEF ReportInv, JobWhole, Busy, Whole
  <2> QED
    BY <2>2, <2>3 DEF ReportInv
<1>4. CASE LockForSpace \/ LockForLoad \/ FillRefused
  BY <1>3, <1>4 DEF LockForSpace, LockForLoad, FillRefused, fifo, seen, Busy
<1>5. CASE CountSpace
  BY <1>5, CountWhole
<1>6. CASE Fill
  BY <1>6, FillWhole
<1>7. CASE StartOfFrame
  BY <1>7, FlushWhole
<1>8. CASE BusReset \/ SetConfiguration
  <2>1. Restarted /\ UNCHANGED <<pc, job, sends>>
    BY <1>8 DEF BusReset, SetConfiguration, send
  <2>2. JobWhole'
    BY <2>1 DEF ReportInv, JobWhole, Busy, Whole
  <2> QED
    BY <2>1, <2>2, PacketsRestarted DEF ReportInv
<1>9. CASE ControlRequest \/ SetLineCoding \/ \E s \in LineStates : SetControlLineState(s)
  BY <1>3, <1>9 DEF ControlRequest, SetLineCoding, SetControlLineState, fifo, send, seen
<1>10. CASE SoftReset
  BY <1>3, <1>10 DEF SoftReset, fifo, seen, Busy
<1>11. CASE WatchdogBites
  BY <1>11, PacketsRestarted DEF WatchdogBites, ReportInv, JobWhole, Busy
<1>12. ASSUME NEW e \in Endpoints, HostTakes(e) PROVE ReportInv'
  BY <1>12, TakeWhole
<1>13. CASE UNCHANGED vars
  BY <1>3, <1>13 DEF vars, fifo, send, seen
<1> QED
  BY <1>1, <1>2, <1>4, <1>5, <1>6, <1>7, <1>8, <1>9, <1>10, <1>11, <1>12, <1>13
     DEF Next, Sending

LEMMA ReportInvariance == Spec => []ReportInv
<1>1. Init => ReportInv
  <2> SUFFICES ASSUME Init PROVE ReportInv
    OBVIOUS
  <2>1. \A e \in Reports : bank[e] = <<>> /\ Len(queued[e]) = 0 /\ Len(got[e]) = 0
    BY EmptyTyped DEF Init, Places, Endpoints
  <2> QED
    BY <2>1 DEF Init, ReportInv, PacketsWhole, JobWhole, Busy
<1> QED
  BY <1>1, EndpointsInvariance, NextReportInv, PTL DEF Spec

LEMMA InSecondPart ==
  ASSUME NEW a \in Nat, NEW b \in Nat, NEW i \in 1..a + b, ~(i <= a)
  PROVE  i - a \in 1..b
OBVIOUS

(* Packets of a HID endpoint are whole reports: USB_Send, however it is     *)
(* interrupted, releases a report with the chunk that holds its last byte,  *)
(* and its first byte is in the same chunk.                                 *)
THEOREM WholeReports == Spec => []ReportsWhole
<1>1. ASSUME EndpointInv, ReportInv PROVE ReportsWhole
  <2> SUFFICES ASSUME NEW e \in Reports
               PROVE  /\ bank[e] = <<>>
                      /\ \A i \in DOMAIN (got[e] \o queued[e]) : Packet(e, (got[e] \o queued[e])[i])
    BY DEF ReportsWhole, Packet, Whole
  <2>1. /\ bank[e] = <<>>
        /\ got[e] \in Seq(Seq(Bytes)) /\ queued[e] \in Seq(Seq(Bytes))
        /\ \A i \in 1..Len(queued[e]) : Packet(e, queued[e][i])
        /\ \A i \in 1..Len(got[e]) : Packet(e, got[e][i])
    BY <1>1 DEF ReportInv, PacketsWhole, EndpointInv, EndpointsTyped, Places, Endpoints
  <2>2. Len(got[e]) \in Nat /\ Len(queued[e]) \in Nat
    BY <2>1, LenProperties
  <2> DEFINE all == got[e] \o queued[e]
  <2>3. /\ all \in Seq(Seq(Bytes)) /\ Len(all) = Len(got[e]) + Len(queued[e])
        /\ \A i \in 1..Len(got[e]) + Len(queued[e]) :
             /\ i <= Len(got[e]) => all[i] = got[e][i]
             /\ ~(i <= Len(got[e])) => all[i] = queued[e][i - Len(got[e])]
    BY <2>1, ConcatProperties
  <2> HIDE DEF all
  <2>4. DOMAIN all = 1..Len(got[e]) + Len(queued[e])
    BY <2>3, LenProperties
  <2>5. ASSUME NEW i \in 1..Len(got[e]) + Len(queued[e])
        PROVE  Packet(e, all[i])
    <3>1. CASE i <= Len(got[e])
      <4>1. i \in 1..Len(got[e])
        BY <2>2, <3>1
      <4>2. all[i] = got[e][i]
        BY <2>3, <3>1
      <4> QED
        BY <2>1, <4>1, <4>2
    <3>2. CASE ~(i <= Len(got[e]))
      <4>1. i - Len(got[e]) \in 1..Len(queued[e])
        BY <2>2, <3>2, InSecondPart
      <4>2. all[i] = queued[e][i - Len(got[e])]
        BY <2>3, <3>2
      <4> QED
        BY <2>1, <4>1, <4>2
    <3> QED
      BY <3>1, <3>2
  <2> QED
    BY <2>1, <2>4, <2>5 DEF all
<1> QED
  BY <1>1, EndpointsInvariance, ReportInvariance, PTL

-----------------------------------------------------------------------------
(* The serial endpoint.  What is left of a write goes on where the bytes    *)
(* loaded of it end.                                                        *)

L == loaded[Serial]

LoadedKnown == \A i \in 1..Len(L) : L[i][1] <= sends

Gapless(s) == \A i, j \in 1..Len(s) : j = i + 1 /\ s[j][1] = s[i][1] => s[j][2] = s[i][2] + 1

JobGoesOn ==
  pc \in Busy /\ job.ep = Serial =>
    /\ \A i \in 1..Len(job.rest) : job.rest[i][1] = sends
    /\ Gapless(job.rest)
    /\ Len(L) > 0 /\ Len(job.rest) > 0 /\ L[Len(L)][1] = sends
         => job.rest[1][2] = L[Len(L)][2] + 1

GapInv == LoadedKnown /\ Gapless(L) /\ JobGoesOn

LEMMA LTyped ==
  ASSUME EndpointInv
  PROVE  /\ L \in Seq(Bytes) /\ Len(L) \in Nat /\ Serial \in Places /\ sends \in Nat
         /\ \A i \in 1..Len(L) : L[i][1] \in Nat
<1>1. L \in Seq(Bytes) /\ Serial \in Places /\ sends \in Nat
  BY DEF L, EndpointInv, EndpointsTyped, Places, Endpoints
<1>2. \A i \in 1..Len(L) : L[i] \in Bytes
  BY <1>1, ElementOfSeq
<1> QED
  BY <1>1, <1>2, LenProperties DEF Bytes

LEMMA GapSame ==
  ASSUME EndpointInv, GapInv, UNCHANGED <<loaded, sends>>,
         pc' \in Busy => /\ pc \in Busy
                         /\ job'.ep = job.ep /\ job'.rest = job.rest
  PROVE  GapInv'
<1>1. L' = L
  BY DEF L
<1>2. LoadedKnown' /\ Gapless(L')
  BY <1>1 DEF GapInv, LoadedKnown
<1>3. JobGoesOn'
  BY <1>1 DEF GapInv, JobGoesOn, Gapless
<1> QED
  BY <1>1, <1>2, <1>3 DEF GapInv, Gapless

LEMMA GapRestarted ==
  ASSUME EndpointInv, GapInv, Restarted, UNCHANGED sends, 
         pc' \in Busy => pc \in Busy /\ job' = job
  PROVE  GapInv'
<1>1. Len(L') = 0
  BY LTyped, EmptyTyped DEF Restarted, L
<1>2. LoadedKnown' /\ Gapless(L')
  BY <1>1 DEF LoadedKnown, Gapless
<1>3. JobGoesOn'
  BY <1>1 DEF GapInv, JobGoesOn, Gapless
<1> QED
  BY <1>2, <1>3 DEF GapInv, Gapless

LEMMA GapStarts ==
  ASSUME EndpointInv, GapInv, NEW e \in Endpoints, NEW m \in Nat,
         Start(e, [i \in 1..m |-> <<sends + 1, i>>])
  PROVE  GapInv'
<1>1. /\ job' = [NoJob EXCEPT !.ep = e, !.rest = [i \in 1..m |-> <<sends + 1, i>>]]
      /\ sends' = sends + 1 /\ UNCHANGED loaded
  BY DEF Start, seen
<1>2. L' = L
  BY <1>1 DEF L
<1>3. LoadedKnown'
  BY <1>1, <1>2, LTyped DEF GapInv, LoadedKnown
<1> DEFINE r == [i \in 1..m |-> <<sends + 1, i>>]
<1>4. job'.rest = r
  BY <1>1 DEF NoJob
<1>5. Len(r) = m /\ \A i \in 1..m : r[i][1] = sends + 1 /\ r[i][2] = i
  OBVIOUS
<1>6. sends' \in Nat /\ \A i \in 1..Len(L) : L[i][1] # sends'
  BY <1>1, LTyped DEF GapInv, LoadedKnown
<1> HIDE DEF r
<1>7. (\A i \in 1..Len(job'.rest) : job'.rest[i][1] = sends') /\ Gapless(job'.rest)
  BY <1>1, <1>4, <1>5 DEF Gapless
<1>8. Len(L') > 0 => L'[Len(L')][1] # sends'
  BY <1>2, <1>6, LTyped
<1>9. JobGoesOn'
  BY <1>7, <1>8 DEF JobGoesOn, Gapless
<1> QED
  BY <1>2, <1>3, <1>9 DEF GapInv, Gapless

(* A sequence goes on with a piece of another that starts where it ends.    *)
LEMMA GaplessConcat ==
  ASSUME NEW a \in Seq(Bytes), NEW c \in Seq(Bytes), Gapless(a), Gapless(c),
         Len(a) > 0 /\ Len(c) > 0 /\ c[1][1] = a[Len(a)][1] => c[1][2] = a[Len(a)][2] + 1
  PROVE  Gapless(a \o c)
<1> DEFINE b == a \o c
<1>1. /\ Len(a) \in Nat /\ Len(c) \in Nat /\ Len(b) = Len(a) + Len(c)
      /\ \A i \in 1..Len(a) + Len(c) : b[i] = IF i <= Len(a) THEN a[i] ELSE c[i - Len(a)]
  BY LenProperties, ConcatProperties
<1> HIDE DEF b
<1> SUFFICES ASSUME NEW i \in 1..Len(b), NEW j \in 1..Len(b), j = i + 1, b[j][1] = b[i][1]
             PROVE  b[j][2] = b[i][2] + 1
  BY DEF Gapless, b
<1>2. CASE j <= Len(a)
  <2>1. i \in 1..Len(a) /\ j \in 1..Len(a)
    BY <1>1, <1>2
  <2>2. b[i] = a[i] /\ b[j] = a[j]
    BY <1>1, <2>1
  <2> QED
    BY <2>1, <2>2 DEF Gapless
<1>3. CASE i = Len(a)
  <2>1. i <= Len(a) /\ ~(j <= Len(a)) /\ j - Len(a) = 1 /\ Len(a) > 0 /\ Len(c) > 0
    BY <1>1, <1>3
  <2>2. b[i] = a[Len(a)] /\ b[j] = c[1]
    BY <1>1, <1>3, <2>1
  <2> QED
    BY <2>1, <2>2
<1>4. CASE i > Len(a)
  <2> DEFINE k == i - Len(a)
             l == j - Len(a)
  <2>1. k \in 1..Len(c) /\ l \in 1..Len(c) /\ l = k + 1 /\ ~(i <= Len(a)) /\ ~(j <= Len(a))
    BY <1>1, <1>4
  <2>2. b[i] = c[k] /\ b[j] = c[l]
    BY <1>1, <2>1
  <2> HIDE DEF k, l
  <2> QED
    BY <2>1, <2>2 DEF Gapless
<1> QED
  BY <1>1, <1>2, <1>3, <1>4

LEMMA GaplessPiece ==
  ASSUME NEW s, NEW t, NEW k \in Nat, Gapless(s), Len(s) \in Nat, Len(t) \in Nat,
         \A i \in 1..Len(t) : k + i \in 1..Len(s) /\ t[i] = s[k + i]
  PROVE  Gapless(t)
<1> SUFFICES ASSUME NEW i \in 1..Len(t), NEW j \in 1..Len(t), j = i + 1, t[j][1] = t[i][1]
             PROVE  t[j][2] = t[i][2] + 1
  BY DEF Gapless
<1>1. k + i \in 1..Len(s) /\ t[i] = s[k + i]
  OBVIOUS
<1>2. k + j \in 1..Len(s) /\ t[j] = s[k + j]
  OBVIOUS
<1>3. k + j = (k + i) + 1
  OBVIOUS
<1> QED
  BY <1>1, <1>2, <1>3 DEF Gapless

LEMMA GapFilled ==
  ASSUME EndpointInv, GapInv, Fill
  PROVE  GapInv'
<1>1. /\ pc = "fill" /\ pc \in Busy /\ sends' = sends /\ Rest \in Seq(Bytes) /\ Chunk \in Seq(Bytes)
      /\ Len(Rest) \in Nat /\ Len(Chunk) \in Nat /\ job.n \in Nat /\ Len(job.rest) \in Nat
      /\ \/ pc' = "idle"
         \/ pc' = "space" /\ job' = [job EXCEPT !.rest = Rest, !.zlp = Zlp, !.n = 0]
  BY FillFinds, FillDoes, LenProperties DEF Busy
<1>2. pc' \in Busy => job'.ep = job.ep /\ job'.rest = Rest
  BY <1>1 DEF EndpointInv, EndpointsTyped, Jobs, Busy
<1>3. CASE job.ep # Serial
  <2>1. L' = L
    BY <1>3, LTyped, FillDoes DEF L, EndpointInv, EndpointsTyped
  <2>2. JobGoesOn'
    BY <1>2, <1>3 DEF JobGoesOn
  <2> QED
    BY <1>1, <2>1, <2>2 DEF GapInv, LoadedKnown, Gapless
<1>4. CASE job.ep = Serial
  <2>1. L' = L \o Chunk
    BY <1>4, LTyped, FillDoes DEF L, EndpointInv, EndpointsTyped
  <2>2. /\ \A i \in 1..Len(job.rest) : job.rest[i][1] = sends
        /\ Gapless(job.rest)
        /\ Len(L) > 0 /\ Len(job.rest) > 0 /\ L[Len(L)][1] = sends
             => job.rest[1][2] = L[Len(L)][2] + 1
    BY <1>1, <1>4 DEF GapInv, JobGoesOn
  <2>3. /\ Len(Chunk) = job.n /\ Len(Rest) = Len(job.rest) - job.n
        /\ \A i \in 1..Len(Chunk) : i \in 1..Len(job.rest) /\ Chunk[i] = job.rest[i]
        /\ \A i \in 1..Len(Rest) : job.n + i \in 1..Len(job.rest) /\ Rest[i] = job.rest[job.n + i]
    BY FillFinds
  <2>4. Gapless(Chunk)
    <3>1. \A i \in 1..Len(Chunk) : 0 + i \in 1..Len(job.rest) /\ Chunk[i] = job.rest[0 + i]
      BY <1>1, <2>3
    <3> QED
      BY <1>1, <2>2, <3>1, GaplessPiece
  <2>5. Gapless(Rest)
    BY <1>1, <2>2, <2>3, GaplessPiece
  <2>6. ASSUME Len(L) > 0, Len(Chunk) > 0, Chunk[1][1] = L[Len(L)][1]
        PROVE  Chunk[1][2] = L[Len(L)][2] + 1
    <3>1. 1 \in 1..Len(Chunk)
      BY <1>1, <2>6
    <3>2. 1 \in 1..Len(job.rest) /\ Chunk[1] = job.rest[1]
      BY <2>3, <3>1
    <3>3. Len(job.rest) > 0
      BY <1>1, <3>2
    <3> QED
      BY <2>2, <2>6, <3>2, <3>3
  <2>7. L \in Seq(Bytes) /\ Gapless(L) /\ Len(L) \in Nat
    BY LTyped DEF GapInv
  <2>8. Gapless(L')
    BY <1>1, <2>1, <2>4, <2>6, <2>7, GaplessConcat
  <2>9. /\ Len(L') = Len(L) + Len(Chunk)
        /\ \A i \in 1..Len(L) + Len(Chunk) :
             /\ i <= Len(L) => L'[i] = L[i]
             /\ ~(i <= Len(L)) => L'[i] = Chunk[i - Len(L)]
    BY <1>1, <2>1, <2>7, ConcatProperties
  <2>10. LoadedKnown'
    <3> SUFFICES ASSUME NEW i \in 1..Len(L') PROVE L'[i][1] <= sends
      BY <1>1 DEF LoadedKnown
    <3>1. i \in 1..Len(L) + Len(Chunk)
      BY <2>9
    <3>2. CASE i <= Len(L)
      <4>1. i \in 1..Len(L) /\ L'[i] = L[i]
        BY <2>7, <2>9, <3>1, <3>2
      <4> QED
        BY <4>1 DEF GapInv, LoadedKnown
    <3>3. CASE ~(i <= Len(L))
      <4>1. i - Len(L) \in 1..Len(Chunk)
        BY <1>1, <2>7, <3>1, <3>3, InSecondPart
      <4>2. L'[i] = Chunk[i - Len(L)]
        BY <2>9, <3>1, <3>3
      <4>3. Chunk[i - Len(L)][1] = sends
        BY <2>2, <2>3, <4>1
      <4>4. L'[i][1] = sends
        BY <4>2, <4>3
      <4>5. sends <= sends
        BY LTyped
      <4> QED
        BY <4>4, <4>5
    <3> QED
      BY <3>2, <3>3
  <2>11. JobGoesOn'
    <3>1. ASSUME NEW i \in 1..Len(Rest) PROVE Rest[i][1] = sends
      <4>1. job.n + i \in 1..Len(job.rest)
        BY <2>3
      <4>2. Rest[i] = job.rest[job.n + i]
        BY <2>3
      <4> QED
        BY <2>2, <4>1, <4>2
    <3>2. ASSUME Len(L') > 0, Len(Rest) > 0, L'[Len(L')][1] = sends
          PROVE  Rest[1][2] = L'[Len(L')][2] + 1
      <4>1. 1 \in 1..Len(Rest)
        BY <1>1, <3>2
      <4>2. job.n + 1 \in 1..Len(job.rest) /\ Rest[1] = job.rest[job.n + 1]
        BY <2>3, <4>1
      <4>3. CASE Len(Chunk) = 0
        <5>1. job.n = 0 /\ Len(L') = Len(L) /\ Len(L) > 0 /\ Len(job.rest) > 0
          BY <1>1, <2>3, <2>7, <2>9, <3>2, <4>2, <4>3
        <5>2. Len(L) \in 1..Len(L) + Len(Chunk) /\ Len(L) <= Len(L)
          BY <1>1, <2>7, <5>1
        <5>3. L'[Len(L')] = L[Len(L)]
          BY <2>9, <5>1, <5>2
        <5>4. Rest[1] = job.rest[1]
          BY <4>2, <5>1
        <5> QED
          BY <2>2, <3>2, <5>1, <5>3, <5>4
      <4>4. CASE Len(Chunk) # 0
        <5>1. /\ Len(L') \in 1..Len(L) + Len(Chunk) /\ ~(Len(L') <= Len(L))
              /\ Len(L') - Len(L) = Len(Chunk) /\ Len(Chunk) \in 1..Len(Chunk)
          BY <1>1, <2>7, <2>9, <4>4
        <5>2. L'[Len(L')] = Chunk[Len(Chunk)]
          BY <2>9, <5>1
        <5>3. Chunk[Len(Chunk)] = job.rest[job.n] /\ job.n \in 1..Len(job.rest)
          BY <2>3, <5>1
        <5>4. job.rest[job.n][1] = job.rest[job.n + 1][1]
          BY <2>2, <4>2, <5>3
        <5>5. job.rest[job.n + 1][2] = job.rest[job.n][2] + 1
          BY <2>2, <4>2, <5>3, <5>4 DEF Gapless
        <5> QED
          BY <4>2, <5>2, <5>3, <5>5
      <4> QED
        BY <4>3, <4>4
    <3>3. CASE pc' \in Busy
      <4>1. job'.rest = Rest
        BY <1>2, <3>3
      <4> QED
        BY <1>1, <2>5, <3>1, <3>2, <4>1 DEF JobGoesOn, Gapless
    <3> QED
      BY <3>3 DEF JobGoesOn
  <2> QED
    BY <2>8, <2>10, <2>11 DEF GapInv, Gapless
<1> QED
  BY <1>3, <1>4

LEMMA NextGapInv == EndpointInv /\ GapInv /\ [Next]_vars => GapInv'
<1> SUFFICES ASSUME EndpointInv, GapInv, [Next]_vars PROVE GapInv'
  OBVIOUS
<1>1. ASSUME NEW e \in Reports, SendReport(e) PROVE GapInv'
  <2>1. ReportLen[e] \in Nat /\ e \in Endpoints
    BY CoreAssumption DEF Endpoints
  <2> QED
    BY <1>1, <2>1, GapStarts DEF SendReport
<1>2. ASSUME NEW n \in WriteLens, SerialWrite(n) PROVE GapInv'
  <2>1. n \in Nat /\ Serial \in Endpoints
    BY CoreAssumption DEF Endpoints
  <2> QED
    BY <1>2, <2>1, GapStarts DEF SerialWrite
<1>3. CASE LockForSpace \/ LockForLoad \/ FillRefused
  BY <1>3, GapSame DEF LockForSpace, LockForLoad, FillRefused, seen, Busy
<1>4. CASE CountSpace
  <2>1. UNCHANGED <<loaded, sends>> /\ pc = "count"
    BY <1>4 DEF CountSpace, seen
  <2>2. pc' \in Busy => job'.ep = job.ep /\ job'.rest = job.rest
    BY <1>4 DEF CountSpace, NoSpace, EndpointInv, EndpointsTyped, Jobs, Busy
  <2> QED
    BY <2>1, <2>2, GapSame DEF Busy
<1>5. CASE Fill
  BY <1>5, GapFilled
<1>6. CASE BusReset \/ SetConfiguration
  BY <1>6, GapRestarted DEF BusReset, SetConfiguration, send
<1>7. ASSUME UNCHANGED <<loaded, send>> PROVE GapInv'
  BY <1>7, GapSame DEF send
<1>8. CASE StartOfFrame \/ ControlRequest \/ SetLineCoding
           \/ (\E s \in LineStates : SetControlLineState(s)) \/ UNCHANGED vars
  BY <1>7, <1>8 DEF StartOfFrame, ControlRequest, SetLineCoding, SetControlLineState, vars, seen
<1>9. CASE SoftReset
  BY <1>9, GapSame DEF SoftReset, seen, Busy
<1>10. CASE WatchdogBites
  BY <1>10, GapRestarted DEF WatchdogBites, Busy
<1>11. ASSUME NEW e \in Endpoints, HostTakes(e) PROVE GapInv'
  BY <1>7, <1>11 DEF HostTakes
<1> QED
  BY <1>1, <1>2, <1>3, <1>4, <1>5, <1>6, <1>8, <1>9, <1>10, <1>11 DEF Next, Sending

LEMMA GapInvariance == Spec => []GapInv
<1>1. Init => GapInv
  <2> SUFFICES ASSUME Init PROVE GapInv
    OBVIOUS
  <2>1. Len(L) = 0
    BY EmptyTyped DEF Init, L, Places, Endpoints
  <2> QED
    BY <2>1 DEF Init, GapInv, LoadedKnown, JobGoesOn, Gapless, Busy
<1> QED
  BY <1>1, EndpointsInvariance, NextGapInv, PTL DEF Spec

(* What the serial port loads of one write is gapless, whatever start of    *)
(* frame releases under it.                                                 *)
THEOREM SerialHasNoGap == Spec => []NoGap
<1>1. ASSUME EndpointInv, GapInv PROVE NoGap
  <2> SUFFICES ASSUME NEW i \in 2..Len(L), L[i][1] = L[i - 1][1]
               PROVE  L[i][2] = L[i - 1][2] + 1
    BY DEF NoGap, L
  <2>1. i - 1 \in 1..Len(L) /\ i \in 1..Len(L) /\ i = (i - 1) + 1
    BY <1>1, LTyped
  <2> QED
    BY <1>1, <2>1 DEF GapInv, Gapless
<1> QED
  BY <1>1, EndpointsInvariance, GapInvariance, PTL

-----------------------------------------------------------------------------
(* FlattenSeq: what its first packets, put together one after the other,    *)
(* add up to.                                                               *)

IsParts(P, q) == P[0] = <<>> /\ \A i \in 1..Len(q) : P[i] = P[i - 1] \o q[i]

LEMMA PartsExist ==
  ASSUME NEW S, NEW q \in Seq(Seq(S))
  PROVE  \E P \in [0..Len(q) -> Seq(S)] : IsParts(P, q)
<1> DEFINE G == [i \in 1..Len(q) |-> [s \in Seq(S) |-> s \o q[i]]]
<1>1. Len(q) \in Nat /\ \A i \in 1..Len(q) : q[i] \in Seq(S)
  BY LenProperties, ElementOfSeq
<1>2. \A s \in Seq(S), t \in Seq(S) : s \o t \in Seq(S)
  BY ConcatProperties
<1>3. G \in [1..Len(q) -> [Seq(S) -> Seq(S)]]
  BY <1>1, <1>2
<1>4. \A i \in 1..Len(q) : \A s \in Seq(S) : G[i][s] = s \o q[i]
  OBVIOUS
<1>5. <<>> \in Seq(S)
  BY EmptySeq
<1> HIDE DEF G
<1>6. PICK P \in [0..Len(q) -> Seq(S)] :
        P[0] = <<>> /\ \A i \in 1..Len(q) : P[i] = G[i][P[i - 1]]
  <2>1. HasIteration(Seq(S), <<>>, Len(q), G)
    BY <1>1, <1>3, <1>5, Iterated
  <2> QED
    BY <2>1 DEF HasIteration, Iterates
<1>7. ASSUME NEW i \in 1..Len(q) PROVE P[i] = P[i - 1] \o q[i]
  <2>1. i - 1 \in 0..Len(q)
    BY <1>1
  <2>2. P[i - 1] \in Seq(S)
    BY <2>1
  <2> QED
    BY <1>4, <1>6, <2>2
<1>8. IsParts(P, q)
  BY <1>6, <1>7 DEF IsParts
<1> QED
  BY <1>8

LEMMA FlattenIs ==
  ASSUME NEW S, NEW q \in Seq(Seq(S)),
         NEW P \in [0..Len(q) -> Seq(S)], IsParts(P, q)
  PROVE  FlattenSeq(q) = P[Len(q)]
<1> DEFINE n == Len(q)
           Is(f) == f = [i \in 1..n |-> IF i = 1 THEN q[i] ELSE f[i - 1] \o q[i]]
           F == CHOOSE f : Is(f)
<1>1. n \in Nat /\ \A i \in 1..n : q[i] \in Seq(S)
  BY LenProperties, ElementOfSeq
<1>2. P[0] = <<>> /\ \A i \in 1..n : P[i] = P[i - 1] \o q[i]
  BY DEF IsParts
<1>3. CASE n = 0
  <2>1. q = <<>>
    BY <1>3, EmptySeq
  <2> QED
    BY <1>2, <1>3, <2>1 DEF FlattenSeq
<1>4. CASE n # 0
  <2>1. P[1] = q[1]
    <3>1. 1 \in 1..n /\ 1 - 1 = 0
      BY <1>1, <1>4
    <3>2. P[1] = P[1 - 1] \o q[1] /\ q[1] \in Seq(S)
      BY <1>1, <1>2, <3>1
    <3>3. P[1] = <<>> \o q[1]
      BY <1>2, <3>1, <3>2
    <3> QED
      BY <3>2, <3>3, ConcatEmptySeq
  <2> DEFINE D == [i \in 1..n |-> P[i]]
  <2>2. \A i \in 1..n : D[i] = IF i = 1 THEN q[i] ELSE D[i - 1] \o q[i]
    <3> SUFFICES ASSUME NEW i \in 1..n
                 PROVE  D[i] = IF i = 1 THEN q[i] ELSE D[i - 1] \o q[i]
      OBVIOUS
    <3>1. CASE i = 1
      BY <2>1, <3>1
    <3>2. CASE i # 1
      <4>1. i - 1 \in 1..n
        BY <1>1, <3>2
      <4> QED
        BY <1>2, <3>2, <4>1
    <3> QED
      BY <3>1, <3>2
  <2>3. Is(D)
    <3>1. DOMAIN D = 1..n /\ D = [i \in 1..n |-> D[i]]
      OBVIOUS
    <3> HIDE DEF D
    <3> QED
      BY <2>2, <3>1
  <2>4. Is(F)
    <3> HIDE DEF D, Is
    <3> QED
      BY <2>3
  <2>5. FlattenSeq(q) = F[n]
    BY <1>4 DEF FlattenSeq
  <2> HIDE DEF F
  <2>6. \A i \in 1..n : F[i] = IF i = 1 THEN q[i] ELSE F[i - 1] \o q[i]
    BY <2>4
  <2> DEFINE T == {i \in 0..n : i # 0 => F[i] = P[i]}
  <2>7. 0 \in T
    BY <1>1
  <2>8. ASSUME NEW k \in 0..n, k \in T, k < n PROVE k + 1 \in T
    <3>1. k + 1 \in 1..n /\ k + 1 \in 0..n /\ (k + 1) - 1 = k
      BY <1>1, <2>8
    <3>2. CASE k = 0
      BY <2>1, <2>6, <3>1, <3>2
    <3>3. CASE k # 0
      <4>1. F[k] = P[k]
        BY <2>8, <3>3
      <4>2. F[k + 1] = F[(k + 1) - 1] \o q[k + 1]
        <5>1. k + 1 # 1
          BY <3>3
        <5> QED
          BY <2>6, <3>1, <5>1
      <4>3. P[k + 1] = P[(k + 1) - 1] \o q[k + 1]
        BY <1>2, <3>1
      <4> QED
        BY <3>1, <4>1, <4>2, <4>3
    <3> QED
      BY <3>2, <3>3
  <2>9. \A k \in 0..n : k \in T
    <3> HIDE DEF T, n
    <3> QED
      BY <1>1, <2>7, <2>8, AllUpTo
  <2> QED
    BY <1>1, <1>4, <2>5, <2>9
<1> QED
  BY <1>3, <1>4

LEMMA FlattenTyped ==
  ASSUME NEW S, NEW q \in Seq(Seq(S))
  PROVE  FlattenSeq(q) \in Seq(S)
<1>1. PICK P \in [0..Len(q) -> Seq(S)] : IsParts(P, q)
  BY PartsExist
<1>2. FlattenSeq(q) = P[Len(q)] /\ Len(q) \in Nat
  BY <1>1, FlattenIs, LenProperties
<1> QED
  BY <1>2

LEMMA FlattenEmpty == FlattenSeq(<<>>) = <<>>
BY DEF FlattenSeq

(* One more packet at the end comes last, ...                               *)
LEMMA FlattenAppend ==
  ASSUME NEW S, NEW q \in Seq(Seq(S)), NEW x \in Seq(S)
  PROVE  FlattenSeq(Append(q, x)) = FlattenSeq(q) \o x
<1>1. PICK P \in [0..Len(q) -> Seq(S)] : IsParts(P, q)
  BY PartsExist
<1> DEFINE n == Len(q)
           r == Append(q, x)
           R == [i \in 0..n + 1 |-> IF i = n + 1 THEN P[n] \o x ELSE P[i]]
<1>2. n \in Nat /\ r \in Seq(Seq(S)) /\ Len(r) = n + 1 /\ r[n + 1] = x
      /\ \A i \in 1..n : r[i] = q[i]
  BY LenProperties, AppendProperties
<1>3. FlattenSeq(q) = P[n] /\ P[n] \in Seq(S)
  BY <1>1, <1>2, FlattenIs
<1>4. R \in [0..Len(r) -> Seq(S)]
  <2>1. P[n] \o x \in Seq(S)
    BY <1>3, ConcatProperties
  <2> HIDE DEF r
  <2> QED
    BY <1>2, <2>1
<1>5. IsParts(R, r)
  <2>1. R[0] = <<>>
    BY <1>1, <1>2 DEF IsParts
  <2>2. ASSUME NEW i \in 1..n + 1 PROVE R[i] = R[i - 1] \o r[i]
    <3>1. i \in 0..n + 1 /\ i - 1 \in 0..n + 1 /\ i - 1 # n + 1
      BY <1>2
    <3>2. CASE i = n + 1
      <4>1. R[i] = P[n] \o x /\ i - 1 = n
        BY <1>2, <3>1, <3>2
      <4>2. R[i - 1] = P[i - 1]
        BY <3>1
      <4> HIDE DEF R
      <4> QED
        BY <1>2, <3>2, <4>1, <4>2
    <3>3. CASE i # n + 1
      <4>1. i \in 1..n
        BY <1>2, <3>3
      <4>2. P[i] = P[i - 1] \o q[i] /\ r[i] = q[i]
        BY <1>1, <1>2, <4>1 DEF IsParts
      <4>3. R[i] = P[i] /\ R[i - 1] = P[i - 1]
        BY <3>1, <3>3
      <4> QED
        BY <4>2, <4>3
    <3> QED
      BY <3>2, <3>3
  <2> HIDE DEF R, r
  <2> QED
    BY <1>2, <2>1, <2>2 DEF IsParts
<1>6. FlattenSeq(r) = R[n + 1]
  <2> HIDE DEF R, r
  <2> QED
    BY <1>2, <1>4, <1>5, FlattenIs
<1> QED
  BY <1>2, <1>3, <1>6

Associate(u, v, w) == (u \o v) \o w = u \o (v \o w)

LEMMA Associates == \A S : \A u, v, w \in Seq(S) : Associate(u, v, w)
BY ConcatAssociative, Z3 DEF Associate

(* ... and the first packet comes first.                                    *)
LEMMA FlattenHead ==
  ASSUME NEW S, NEW q \in Seq(Seq(S)), q # <<>>
  PROVE  FlattenSeq(q) = Head(q) \o FlattenSeq(Tail(q))
<1> DEFINE t == Tail(q)
           h == Head(q)
           n == Len(t)
<1>1. /\ h \in Seq(S) /\ t \in Seq(Seq(S)) /\ n \in Nat /\ Len(q) = n + 1
      /\ \A i \in 1..n : t[i] = q[i + 1]
  <2>1. /\ h \in Seq(S) /\ t \in Seq(Seq(S)) /\ n = Len(q) - 1
        /\ \A i \in 1..n : t[i] = q[i + 1]
    BY HeadTailProperties
  <2>2. n \in Nat /\ Len(q) \in Nat
    BY <2>1, LenProperties
  <2> QED
    BY <2>1, <2>2
<1>2. h = q[1]
  OBVIOUS
<1> HIDE DEF t, h
<1>3. PICK P \in [0..n -> Seq(S)] : IsParts(P, t)
  BY <1>1, PartsExist
<1>4. FlattenSeq(t) = P[n]
  BY <1>1, <1>3, FlattenIs
<1> DEFINE R == [i \in 0..n + 1 |-> IF i = 0 THEN <<>> ELSE h \o P[i - 1]]
<1>5. R \in [0..Len(q) -> Seq(S)]
  <2>1. ASSUME NEW i \in 1..n + 1 PROVE h \o P[i - 1] \in Seq(S)
    <3>1. i - 1 \in 0..n
      BY <1>1
    <3>2. P[i - 1] \in Seq(S)
      BY <3>1
    <3> QED
      BY <1>1, <3>2, ConcatProperties
  <2>2. <<>> \in Seq(S)
    BY EmptySeq
  <2>3. ASSUME NEW i \in 0..n + 1
        PROVE  (IF i = 0 THEN <<>> ELSE h \o P[i - 1]) \in Seq(S)
    <3>1. CASE i = 0
      BY <2>2, <3>1
    <3>2. CASE i # 0
      <4>1. i \in 1..n + 1
        BY <1>1, <3>2
      <4> QED
        BY <2>1, <3>2, <4>1
    <3> QED
      BY <3>1, <3>2
  <2> QED
    BY <1>1, <2>3
<1>6. IsParts(R, q)
  <2>1. R[0] = <<>>
    BY <1>1
  <2>2. ASSUME NEW i \in 1..n + 1 PROVE R[i] = R[i - 1] \o q[i]
    <3>1. i \in 0..n + 1 /\ i - 1 \in 0..n /\ R[i] = h \o P[i - 1]
      BY <1>1
    <3>2. CASE i = 1
      <4>1. R[i] = h \o <<>> /\ R[i - 1] = <<>> /\ q[i] = h
        BY <1>1, <1>2, <1>3, <3>1, <3>2 DEF IsParts
      <4> QED
        BY <1>1, <4>1, ConcatEmptySeq
    <3>3. CASE i # 1
      <4>1. i - 1 \in 1..n /\ i - 1 \in 0..n + 1 /\ (i - 1) - 1 \in 0..n /\ i - 1 # 0
            /\ (i - 1) + 1 = i
        BY <1>1, <3>3
      <4>2. P[i - 1] = P[(i - 1) - 1] \o t[i - 1] /\ t[i - 1] = q[i]
        BY <1>1, <1>3, <4>1 DEF IsParts
      <4>3. R[i - 1] = h \o P[(i - 1) - 1]
        BY <4>1
      <4>4. P[(i - 1) - 1] \in Seq(S) /\ t[i - 1] \in Seq(S)
        BY <1>1, <4>1, ElementOfSeq
      <4> HIDE DEF R
      <4>5. (h \o P[(i - 1) - 1]) \o t[i - 1] = h \o (P[(i - 1) - 1] \o t[i - 1])
        <5>1. h \in Seq(S)
          BY <1>1
        <5>2. Associate(h, P[(i - 1) - 1], t[i - 1])
          BY <4>4, <5>1, Associates
        <5> QED
          BY <5>2 DEF Associate
      <4> QED
        BY <3>1, <4>2, <4>3, <4>5
    <3> QED
      BY <3>2, <3>3
  <2> HIDE DEF R
  <2> QED
    BY <1>1, <2>1, <2>2 DEF IsParts
<1>7. FlattenSeq(q) = R[n + 1]
  <2> HIDE DEF R
  <2> QED
    BY <1>1, <1>5, <1>6, FlattenIs
<1>8. R[n + 1] = h \o P[n]
  BY <1>1
<1> QED
  BY <1>4, <1>7, <1>8 DEF t, h

-----------------------------------------------------------------------------
(* The byte stream of an endpoint.  Nothing is lost on the way: what was    *)
(* loaded since the last reset is what the host took, then what it can      *)
(* take, then what lies in the bank the CPU fills.                          *)

Written == [e \in Endpoints |-> loaded[e]]
Arrived == [e \in Endpoints |-> FlattenSeq(got[e])]

AllThere(l, g, q, b) == l = (FlattenSeq(g) \o FlattenSeq(q)) \o b

StreamInv == \A e \in Endpoints : AllThere(loaded[e], got[e], queued[e], bank[e])

LEMMA StreamTyped ==
  ASSUME EndpointInv, NEW e \in Endpoints
  PROVE  /\ loaded[e] \in Seq(Bytes) /\ bank[e] \in Seq(Bytes)
         /\ got[e] \in Seq(Seq(Bytes)) /\ queued[e] \in Seq(Seq(Bytes))
BY DEF EndpointInv, EndpointsTyped, Places

(* Loading puts bytes at the end, ...                                       *)
LEMMA LoadKeeps ==
  ASSUME NEW S, NEW l, NEW g \in Seq(Seq(S)), NEW q \in Seq(Seq(S)), NEW b \in Seq(S),
         NEW x \in Seq(S), AllThere(l, g, q, b)
  PROVE  AllThere(l \o x, g, q, b \o x)
<1> DEFINE a == FlattenSeq(g) \o FlattenSeq(q)
<1>1. a \in Seq(S)
  BY FlattenTyped, ConcatProperties
<1>2. Associate(a, b, x)
  BY <1>1, Associates
<1> QED
  BY <1>2 DEF Associate, AllThere

(* ... a released bank is the last packet of the queue, ...                 *)
LEMMA ReleaseKeeps ==
  ASSUME NEW S, NEW l, NEW g \in Seq(Seq(S)), NEW q \in Seq(Seq(S)), NEW b \in Seq(S),
         AllThere(l, g, q, b)
  PROVE  AllThere(l, g, Append(q, b), <<>>)
<1> DEFINE a == FlattenSeq(g)
           w == FlattenSeq(q)
           r == a \o (w \o b)
<1>1. a \in Seq(S) /\ w \in Seq(S)
  BY FlattenTyped
<1>2. r \in Seq(S)
  BY <1>1, ConcatProperties
<1>3. Associate(a, w, b)
  BY <1>1, Associates
<1>4. l = r
  BY <1>3 DEF Associate, AllThere
<1>5. FlattenSeq(Append(q, b)) = w \o b
  BY FlattenAppend
<1>6. r \o <<>> = r
  <2> HIDE DEF r
  <2> QED
    BY <1>2, ConcatEmptySeq
<1> QED
  BY <1>4, <1>5, <1>6 DEF AllThere

(* ... and the packet the host takes was the first of the queue.            *)
LEMMA TakeKeeps ==
  ASSUME NEW S, NEW l, NEW g \in Seq(Seq(S)), NEW q \in Seq(Seq(S)), NEW b \in Seq(S),
         q # <<>>, AllThere(l, g, q, b)
  PROVE  AllThere(l, Append(g, Head(q)), Tail(q), b)
<1> DEFINE a == FlattenSeq(g)
           h == Head(q)
           w == FlattenSeq(Tail(q))
<1>1. h \in Seq(S) /\ Tail(q) \in Seq(Seq(S))
  BY HeadTailProperties
<1>2. a \in Seq(S) /\ w \in Seq(S)
  BY <1>1, FlattenTyped
<1>3. Associate(a, h, w)
  BY <1>1, <1>2, Associates
<1>4. FlattenSeq(Append(g, h)) = a \o h
  BY <1>1, FlattenAppend
<1>5. FlattenSeq(q) = h \o w
  BY FlattenHead
<1> QED
  BY <1>3, <1>4, <1>5 DEF Associate, AllThere

LEMMA StreamRestarted ==
  ASSUME Restarted PROVE StreamInv' /\ Written' = [e \in Endpoints |-> <<>>]
                         /\ Arrived' = [e \in Endpoints |-> <<>>]
<1>1. \A e \in Endpoints :
        loaded'[e] = <<>> /\ got'[e] = <<>> /\ queued'[e] = <<>> /\ bank'[e] = <<>>
  BY EmptyTyped DEF Restarted, Places
<1>2. (<<>> \o <<>>) \o <<>> = <<>>
  <2>1. <<>> \o <<>> = <<>>
    <3>1. <<>> \in Seq({})
      BY EmptySeq
    <3> QED
      BY <3>1, ConcatEmptySeq
  <2> QED
    BY <2>1
<1>3. AllThere(<<>>, <<>>, <<>>, <<>>)
  BY <1>2, FlattenEmpty DEF AllThere
<1>4. StreamInv'
  <2>1. \A e \in Endpoints : AllThere(loaded'[e], got'[e], queued'[e], bank'[e])
    BY <1>1, <1>3
  <2> QED
    BY <2>1 DEF StreamInv, AllThere
<1>5. Arrived' = [e \in Endpoints |-> FlattenSeq(got'[e])]
  BY DEF Arrived
<1> QED
  BY <1>1, <1>4, <1>5, FlattenEmpty DEF Written

LEMMA FillStream ==
  ASSUME EndpointInv, StreamInv, Fill
  PROVE  StreamInv'
<1> DEFINE e == job.ep
           x == Chunk
<1>1. e \in Endpoints /\ x \in Seq(Bytes)
  BY FillFinds
<1>2. Filled = bank[e] \o x
  BY DEF Filled
<1>3. /\ loaded[e] \in Seq(Bytes) /\ bank[e] \in Seq(Bytes) /\ Filled \in Seq(Bytes)
      /\ got[e] \in Seq(Seq(Bytes)) /\ queued[e] \in Seq(Seq(Bytes))
  BY <1>1, StreamTyped, FillFinds
<1>4. AllThere(loaded[e] \o x, got[e], queued[e], Filled)
  <2>1. AllThere(loaded[e], got[e], queued[e], bank[e])
    BY <1>1 DEF StreamInv
  <2> HIDE DEF e, x
  <2> QED
    BY <1>1, <1>2, <1>3, <2>1, LoadKeeps
<1>5. AllThere(loaded[e] \o x, got[e], Append(queued[e], Filled), <<>>)
  <2> HIDE DEF e, x
  <2> QED
    BY <1>3, <1>4, ReleaseKeeps
<1>6. /\ loaded'[e] = loaded[e] \o x /\ got' = got
      /\ IF Releases(Full, Rest)
         THEN bank'[e] = <<>> /\ queued'[e] = Append(queued[e], Filled)
         ELSE bank'[e] = Filled /\ queued'[e] = queued[e]
      /\ \A f \in Endpoints \ {e} :
           loaded'[f] = loaded[f] /\ bank'[f] = bank[f] /\ queued'[f] = queued[f]
  BY <1>1, FillDoes DEF EndpointInv, EndpointsTyped, Places
<1> HIDE DEF e, x
<1>7. ASSUME NEW f \in Endpoints PROVE AllThere(loaded'[f], got'[f], queued'[f], bank'[f])
  <2>1. CASE f = e
    BY <1>4, <1>5, <1>6, <2>1
  <2>2. CASE f # e
    BY <1>6, <2>2 DEF StreamInv
  <2> QED
    BY <2>1, <2>2
<1> QED
  BY <1>7 DEF StreamInv, AllThere

LEMMA FlushStream ==
  ASSUME EndpointInv, StreamInv, StartOfFrame
  PROVE  StreamInv' /\ UNCHANGED <<loaded, got>>
<1>1. UsbFlush(Serial) /\ UNCHANGED <<loaded, got>> /\ Serial \in Endpoints
  BY DEF StartOfFrame, seen, Endpoints
<1>2. CASE UNCHANGED fifo
  BY <1>1, <1>2 DEF StreamInv, AllThere, fifo
<1>3. CASE ~UNCHANGED fifo
  <2>1. /\ queued' = [queued EXCEPT ![Serial] = Append(@, bank[Serial])]
        /\ bank' = [bank EXCEPT ![Serial] = <<>>]
    BY <1>1, <1>3 DEF UsbFlush, ReleaseTX
  <2>2. /\ queued'[Serial] = Append(queued[Serial], bank[Serial]) /\ bank'[Serial] = <<>>
        /\ \A f \in Endpoints \ {Serial} : queued'[f] = queued[f] /\ bank'[f] = bank[f]
    BY <1>1, <2>1 DEF EndpointInv, EndpointsTyped, Places
  <2>3. AllThere(loaded[Serial], got[Serial], Append(queued[Serial], bank[Serial]), <<>>)
    BY <1>1, StreamTyped, ReleaseKeeps DEF StreamInv
  <2>4. ASSUME NEW f \in Endpoints PROVE AllThere(loaded'[f], got'[f], queued'[f], bank'[f])
    <3>1. CASE f = Serial
      BY <1>1, <2>2, <2>3, <3>1
    <3>2. CASE f # Serial
      BY <1>1, <2>2, <3>2 DEF StreamInv
    <3> QED
      BY <3>1, <3>2
  <2> QED
    BY <1>1, <2>4 DEF StreamInv, AllThere
<1> QED
  BY <1>1, <1>2, <1>3

LEMMA TakeDoes ==
  ASSUME EndpointInv, NEW e \in Endpoints, HostTakes(e)
  PROVE  /\ queued[e] # <<>> /\ UNCHANGED <<bank, loaded>>
         /\ queued'[e] = Tail(queued[e]) /\ got'[e] = Append(got[e], Head(queued[e]))
         /\ \A f \in Endpoints \ {e} : queued'[f] = queued[f] /\ got'[f] = got[f]
BY DEF HostTakes, EndpointInv, EndpointsTyped, Places

LEMMA TakeStream ==
  ASSUME EndpointInv, StreamInv, NEW e \in Endpoints, HostTakes(e)
  PROVE  StreamInv'
<1>1. AllThere(loaded[e], got'[e], queued'[e], bank[e])
  <2>1. /\ got[e] \in Seq(Seq(Bytes)) /\ queued[e] \in Seq(Seq(Bytes))
        /\ bank[e] \in Seq(Bytes) /\ queued[e] # <<>>
        /\ AllThere(loaded[e], got[e], queued[e], bank[e])
    BY StreamTyped, TakeDoes DEF StreamInv
  <2>2. AllThere(loaded[e], Append(got[e], Head(queued[e])), Tail(queued[e]), bank[e])
    BY <2>1, TakeKeeps
  <2> QED
    BY <2>2, TakeDoes
<1>2. ASSUME NEW f \in Endpoints PROVE AllThere(loaded'[f], got'[f], queued'[f], bank'[f])
  <2>1. CASE f = e
    BY <1>1, <2>1, TakeDoes
  <2>2. CASE f # e
    BY <2>2, TakeDoes DEF StreamInv
  <2> QED
    BY <2>1, <2>2
<1> QED
  BY <1>2 DEF StreamInv, AllThere

(* What the other steps leave alone.                                        *)
Quiet == UNCHANGED <<bank, queued, loaded, got>>

LEMMA StreamActions ==
  ASSUME [Next]_vars
  PROVE  Fill \/ StartOfFrame \/ Restarted \/ Quiet \/ \E e \in Endpoints : HostTakes(e)
<1>1. (\E e \in Reports : SendReport(e)) \/ (\E n \in WriteLens : SerialWrite(n)) => Quiet
  BY DEF SendReport, SerialWrite, Start, Quiet, fifo, seen
<1>2. LockForSpace \/ CountSpace \/ LockForLoad \/ FillRefused => Quiet
  BY DEF LockForSpace, CountSpace, LockForLoad, FillRefused, Quiet, fifo, seen
<1>3. BusReset \/ SetConfiguration \/ WatchdogBites => Restarted
  BY DEF BusReset, SetConfiguration, WatchdogBites
<1>4. ControlRequest \/ SetLineCoding \/ (\E s \in LineStates : SetControlLineState(s)) => Quiet
  BY DEF ControlRequest, SetLineCoding, SetControlLineState, Quiet, fifo, seen
<1>5. SoftReset => Quiet
  BY DEF SoftReset, Quiet, fifo, seen
<1>6. UNCHANGED vars => Quiet
  BY DEF vars, Quiet, fifo, seen
<1> QED
  BY <1>1, <1>2, <1>3, <1>4, <1>5, <1>6 DEF Next, Sending

LEMMA NextStreamInv == EndpointInv /\ StreamInv /\ [Next]_vars => StreamInv'
<1> SUFFICES ASSUME EndpointInv, StreamInv, [Next]_vars PROVE StreamInv'
  OBVIOUS
<1>1. CASE Quiet
  BY <1>1 DEF Quiet, StreamInv, AllThere
<1> QED
  BY <1>1, StreamActions, FillStream, FlushStream, StreamRestarted, TakeStream

LEMMA InitStream == Init => StreamInv /\ Streams!Init
<1> SUFFICES ASSUME Init PROVE StreamInv /\ Streams!Init
  OBVIOUS
<1>1. \A e \in Endpoints :
        loaded[e] = <<>> /\ got[e] = <<>> /\ queued[e] = <<>> /\ bank[e] = <<>>
  BY EmptyTyped DEF Init, Places
<1>2. AllThere(<<>>, <<>>, <<>>, <<>>)
  <2>1. <<>> \in Seq({})
    BY EmptySeq
  <2>2. <<>> \o <<>> = <<>>
    BY <2>1, ConcatEmptySeq
  <2> QED
    BY <2>2, FlattenEmpty DEF AllThere
<1> QED
  BY <1>1, <1>2, FlattenEmpty DEF StreamInv, Streams!Init

LEMMA StreamInvariance == Spec => []StreamInv
BY InitStream, EndpointsInvariance, NextStreamInv, PTL DEF Spec

(* A sequence is a prefix of any that goes on from it.                      *)
LEMMA GoesOn ==
  ASSUME NEW S, NEW s \in Seq(S), NEW t \in Seq(S)
  PROVE  /\ Streams!IsPrefix(s, s \o t)
         /\ t # <<>> => Streams!IsStrictPrefix(s, s \o t)
<1>1. /\ s \o t \in Seq(S) /\ Len(s) \in Nat /\ Len(t) \in Nat
      /\ Len(s \o t) = Len(s) + Len(t)
      /\ \A i \in 1..Len(s) : (s \o t)[i] = s[i] /\ (s \o t)[i] \in S /\ s[i] \in S
  <2>1. /\ s \o t \in Seq(S) /\ Len(s) \in Nat /\ Len(t) \in Nat
        /\ Len(s \o t) = Len(s) + Len(t)
        /\ \A i \in 1..Len(s) + Len(t) : (s \o t)[i] = IF i <= Len(s) THEN s[i]
                                                      ELSE t[i - Len(s)]
    BY ConcatProperties, LenProperties
  <2>2. \A i \in 1..Len(s) : s[i] \in S
    BY ElementOfSeq
  <2>3. \A i \in 1..Len(s) : i \in 1..Len(s) + Len(t) /\ i <= Len(s)
    BY <2>1
  <2>4. \A i \in 1..Len(s) : (s \o t)[i] = s[i]
    BY <2>1, <2>3
  <2> QED
    BY <2>1, <2>2, <2>4
<1> DEFINE r == s \o t
           n == Len(s)
<1>2. SubSeq(s, 1, n) = s
  BY SubSeqFull
<1>3. /\ SubSeq(r, 1, n) \in Seq(S) /\ Len(SubSeq(r, 1, n)) = n
      /\ \A i \in 1..n : SubSeq(r, 1, n)[i] = r[i]
  <2> HIDE DEF r
  <2>1. n \in Int /\ 1 \in Int /\ \A i \in 1..n : r[i] \in S
    BY <1>1 DEF r
  <2>2. /\ SubSeq(r, 1, n) \in Seq(S)
        /\ Len(SubSeq(r, 1, n)) = IF 1 <= n THEN n - 1 + 1 ELSE 0
        /\ \A i \in 1..n - 1 + 1 : SubSeq(r, 1, n)[i] = r[1 + i - 1]
    BY <2>1, SubSeqProperties
  <2> QED
    BY <1>1, <2>2
<1>4. SubSeq(r, 1, n) = s
  <2> DEFINE u == SubSeq(r, 1, n)
  <2>1. u \in Seq(S) /\ Len(u) = Len(s) /\ \A i \in 1..Len(u) : u[i] = s[i]
    BY <1>1, <1>3
  <2> HIDE DEF u
  <2>2. u = s
    BY <2>1, SeqEqual
  <2> QED
    BY <2>2 DEF u
<1>5. Streams!IsPrefix(s, r)
  BY <1>1, <1>2, <1>4 DEF Streams!IsPrefix
<1>6. t # <<>> => s # r
  BY ConcatEqualIffEmpty
<1> QED
  BY <1>5, <1>6 DEF Streams!IsStrictPrefix

LEMMA FillWrites ==
  ASSUME EndpointInv, Fill
  PROVE  [Streams!Next]_<<Written, Arrived>>
<1> DEFINE x == Chunk
<1>1. PICK e \in Endpoints : e = job.ep
  BY FillFinds
<1>2. x \in Seq(Bytes) /\ loaded[e] \in Seq(Bytes)
  BY FillFinds, StreamTyped
<1>3. /\ loaded'[e] = loaded[e] \o x /\ got' = got
      /\ \A f \in Endpoints \ {e} : loaded'[f] = loaded[f]
  BY <1>1, FillDoes DEF EndpointInv, EndpointsTyped, Places
<1> HIDE DEF x
<1>4. CASE x = <<>>
  <2>1. loaded'[e] = loaded[e]
    BY <1>2, <1>3, <1>4, ConcatEmptySeq
  <2>2. Written' = Written /\ Arrived' = Arrived
    BY <1>3, <2>1 DEF Written, Arrived
  <2> QED
    BY <2>2
<1>5. CASE x # <<>>
  <2>1. Streams!IsStrictPrefix(loaded[e], loaded'[e])
    BY <1>2, <1>3, <1>5, GoesOn
  <2>2. Streams!Write(e)
    BY <1>2, <1>3, <2>1 DEF Streams!Write
  <2> QED
    BY <2>2 DEF Streams!Next
<1> QED
  BY <1>4, <1>5

LEMMA TakeReads ==
  ASSUME EndpointInv, StreamInv, NEW e \in Endpoints, HostTakes(e)
  PROVE  [Streams!Next]_<<Written, Arrived>>
<1> DEFINE a == FlattenSeq(got[e])
           h == Head(queued[e])
           w == FlattenSeq(queued'[e])
<1>1. /\ got[e] \in Seq(Seq(Bytes)) /\ queued[e] \in Seq(Seq(Bytes)) /\ bank[e] \in Seq(Bytes)
  BY StreamTyped
<1>2. /\ queued[e] # <<>> /\ UNCHANGED <<bank, loaded>>
      /\ queued'[e] = Tail(queued[e]) /\ got'[e] = Append(got[e], h)
      /\ \A f \in Endpoints \ {e} : got'[f] = got[f]
  BY TakeDoes
<1>3. h \in Seq(Bytes) /\ queued'[e] \in Seq(Seq(Bytes))
  BY <1>1, <1>2, HeadTailProperties
<1>4. a \in Seq(Bytes) /\ w \in Seq(Bytes)
  BY <1>1, <1>3, FlattenTyped
<1>5. FlattenSeq(got'[e]) = a \o h
  BY <1>1, <1>2, <1>3, FlattenAppend
<1>6. Streams!IsPrefix(a \o h, loaded[e])
  <2>1. AllThere(loaded[e], got'[e], queued'[e], bank[e])
    BY <1>1, <1>2, TakeKeeps DEF StreamInv
  <2>2. loaded[e] = ((a \o h) \o w) \o bank[e]
    BY <1>5, <2>1 DEF AllThere
  <2>3. a \o h \in Seq(Bytes)
    BY <1>3, <1>4, ConcatProperties
  <2>4. w \o bank[e] \in Seq(Bytes) /\ Associate(a \o h, w, bank[e])
    BY <1>1, <1>4, <2>3, ConcatProperties, Associates
  <2>5. Streams!IsPrefix(a \o h, (a \o h) \o (w \o bank[e]))
    BY <2>3, <2>4, GoesOn
  <2> QED
    BY <2>2, <2>4, <2>5 DEF Associate
<1> HIDE DEF a, h, w
<1>7. a = FlattenSeq(got[e])
  BY DEF a
<1>8. CASE h = <<>>
  <2>1. FlattenSeq(got'[e]) = FlattenSeq(got[e])
    BY <1>4, <1>5, <1>7, <1>8, ConcatEmptySeq
  <2>2. \A f \in Endpoints : FlattenSeq(got'[f]) = FlattenSeq(got[f])
    BY <1>2, <2>1
  <2>3. Written' = Written /\ Arrived' = Arrived
    BY <1>2, <2>2 DEF Written, Arrived
  <2> QED
    BY <2>3
<1>9. CASE h # <<>>
  <2>1. Streams!IsStrictPrefix(FlattenSeq(got[e]), FlattenSeq(got'[e]))
    BY <1>3, <1>4, <1>5, <1>7, <1>9, GoesOn
  <2>2. Streams!IsPrefix(FlattenSeq(got'[e]), loaded[e])
    BY <1>5, <1>6
  <2>3. Streams!Read(e)
    BY <1>2, <2>1, <2>2 DEF Streams!Read
  <2> QED
    BY <2>3 DEF Streams!Next
<1> QED
  BY <1>8, <1>9

LEMMA StepStreams == EndpointInv /\ StreamInv /\ [Next]_vars => [Streams!Next]_<<Written, Arrived>>
<1> SUFFICES ASSUME EndpointInv, StreamInv, [Next]_vars
             PROVE  [Streams!Next]_<<Written, Arrived>>
  OBVIOUS
<1>1. CASE Quiet \/ StartOfFrame
  BY <1>1, FlushStream DEF Quiet, Written, Arrived
<1>2. CASE Restarted
  BY <1>2, StreamRestarted DEF Streams!Next, Streams!Empty, Written, Arrived
<1> QED
  BY <1>1, <1>2, StreamActions, FillWrites, TakeReads

(* However the interrupts move UENUM under USB_Send and flush or reset the  *)
(* endpoints between its steps, each endpoint is a stream: its bytes reach  *)
(* the host in the order they were sent, none twice and none left out.      *)
THEOREM EndpointsAreStreams == Spec => ImplementsStreams
<1>1. Spec => [][Streams!Next]_<<Written, Arrived>>
  BY EndpointsInvariance, StreamInvariance, StepStreams, PTL DEF Spec
<1> QED
  BY <1>1, InitStream, PTL DEF Spec, ImplementsStreams, Streams!Spec, Written, Arrived

=============================================================================
