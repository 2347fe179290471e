--------------------------- MODULE KeyReportProofs ---------------------------
(***************************************************************************)
(* Proofs about KeyReport, for any keys, any number of slots, any number   *)
(* of endpoint banks and combinations of any length.                       *)
(***************************************************************************)
EXTENDS KeyReport, Iterations, SequenceTheorems, FiniteSetTheorems

(* Every list of operations a command is made of is well formed.           *)
LEMMA OpsTyped ==
  /\ Send \in Ops
  /\ Op("releaseAll", RESERVED) \in Ops
  /\ \A o \in {"add", "remove", "press", "release"}, k \in AnyKey : Op(o, k) \in Ops
BY DEF Send, Op, Ops

LEMMA ShiftTyped ==
  ASSUME NEW o \in {"add", "remove"}, NEW s \in BOOLEAN
  PROVE  Shift(o, s) \in Seq(Ops)
<1>1. Op(o, LEFT_SHIFT) \in Ops
  BY OpsTyped, KeyAssumption DEF AnyKey
<1> QED
  BY <1>1 DEF Shift

LEMMA KeyDownTyped ==
  ASSUME NEW k \in AnyKey, NEW s \in BOOLEAN
  PROVE  KeyDown(k, s) \in Seq(Ops)
<1>1. Shift("add", s) \in Seq(Ops)
  BY ShiftTyped
<1>2. <<Op("add", k)>> \in Seq(Ops) /\ <<Send>> \in Seq(Ops)
  BY OpsTyped
<1> QED
  BY <1>1, <1>2 DEF KeyDown

LEMMA KeyUpTyped ==
  ASSUME NEW k \in AnyKey, NEW s \in BOOLEAN
  PROVE  KeyUp(k, s) \in Seq(Ops)
<1>1. Shift("remove", s) \in Seq(Ops)
  BY ShiftTyped
<1>2. <<Op("remove", k)>> \in Seq(Ops) /\ <<Send>> \in Seq(Ops)
  BY OpsTyped
<1> QED
  BY <1>1, <1>2 DEF KeyUp

LEMMA CombTyped ==
  ASSUME NEW o \in {"add", "remove"}, NEW ks \in Combinations
  PROVE  Comb(o, ks) \in Seq(Ops)
<1>1. PICK n \in Nat : ks \in [1..n -> AnyKey]
  BY KeyAssumption DEF Combinations
<1>2. ks \in Seq(AnyKey)
  BY <1>1
<1>3. EachKey(o, ks) \in Seq(Ops)
  <2>1. \A i \in 1..Len(ks) : Op(o, ks[i]) \in Ops
    BY <1>2, OpsTyped
  <2> QED
    BY <1>2, <2>1 DEF EachKey
<1>4. <<Send>> \in Seq(Ops)
  BY OpsTyped
<1> QED
  BY <1>3, <1>4 DEF Comb

(* A command that begins puts well-formed operations into todo and leaves  *)
(* the report alone.                                                       *)
LEMMA BeginTyped ==
  ASSUME TypeOK, NEW c \in Commands, NEW ops \in Seq(Ops), Begin(c, ops)
  PROVE  TypeOK'
<1>1. Named(ops) \subseteq AnyKey
  <2>1. \A i \in 1..Len(ops) : ops[i].key \in AnyKey \cup {RESERVED}
    BY DEF Ops
  <2> QED
    BY <2>1 DEF Named
<1> QED
  BY <1>1 DEF TypeOK, Begin

LEMMA CommandTyped ==
  ASSUME TypeOK, Command
  PROVE  TypeOK'
<1>1. CASE KB_DOWN
  BY <1>1, KeyDownTyped, BeginTyped DEF KB_DOWN, Commands
<1>2. CASE KB_UP
  BY <1>2, KeyUpTyped, BeginTyped DEF KB_UP, Commands
<1>3. CASE KB_PRESS
  <2>1. PICK k \in AnyKey, s \in BOOLEAN : Begin("KB_PRESS", KeyDown(k, s) \o KeyUp(k, s))
    BY <1>3 DEF KB_PRESS
  <2>2. KeyDown(k, s) \o KeyUp(k, s) \in Seq(Ops)
    BY KeyDownTyped, KeyUpTyped
  <2> QED
    BY <2>1, <2>2, BeginTyped DEF Commands
<1>4. CASE KB_UP_ALL
  <2>1. <<Op("releaseAll", RESERVED)>> \in Seq(Ops)
    BY OpsTyped
  <2> QED
    BY <1>4, <2>1, BeginTyped DEF KB_UP_ALL, Commands
<1>5. CASE KB_COMB_DOWN
  BY <1>5, CombTyped, BeginTyped DEF KB_COMB_DOWN, Commands
<1>6. CASE KB_COMB_UP
  BY <1>6, CombTyped, BeginTyped DEF KB_COMB_UP, Commands
<1>7. CASE KB_COMB_PRESS
  <2>1. PICK ks \in Combinations :
          Begin("KB_COMB_PRESS", Comb("add", ks) \o Comb("remove", ks))
    BY <1>7 DEF KB_COMB_PRESS
  <2>2. Comb("add", ks) \in Seq(Ops) /\ Comb("remove", ks) \in Seq(Ops)
    BY CombTyped
  <2>3. Comb("add", ks) \o Comb("remove", ks) \in Seq(Ops)
    BY <2>2, ConcatProperties
  <2> QED
    BY <2>1, <2>3, BeginTyped DEF Commands
<1>8. CASE KB_SET_LOCK
  <2>1. PICK k \in LockKeys :
          Begin("KB_SET_LOCK", <<Op("press", k), Op("release", k)>>)
    BY <1>8 DEF KB_SET_LOCK
  <2>2. <<Op("press", k), Op("release", k)>> \in Seq(Ops)
    BY OpsTyped, KeyAssumption DEF AnyKey
  <2> QED
    BY <2>1, <2>2, BeginTyped DEF Commands
<1> QED
  BY <1>1, <1>2, <1>3, <1>4, <1>5, <1>6, <1>7, <1>8 DEF Command

-----------------------------------------------------------------------------
(* What the operations do to the report. *)

Report == <<modifiers, keycodes>>

ReportOK ==
  /\ modifiers \subseteq Modifiers
  /\ keycodes \in [Slots -> Keys \cup {RESERVED}]
  /\ NoDuplicateKey

LEMMA AddKeepsReport ==
  ASSUME ReportOK, NEW k \in AnyKey, Add(k)
  PROVE  ReportOK'
<1>1. CASE k \in Modifiers
  BY <1>1 DEF Add, ReportOK, NoDuplicateKey
<1>2. CASE k \notin Modifiers /\ (Shown(k) \/ Free = {})
  BY <1>2 DEF Add, ReportOK, NoDuplicateKey
<1>3. CASE k \notin Modifiers /\ ~Shown(k) /\ Free # {}
  <2>1. keycodes' = [keycodes EXCEPT ![First(Free)] = k] /\ UNCHANGED modifiers
    BY <1>3 DEF Add
  <2>2. k \in Keys
    BY <1>3 DEF AnyKey
  <2>3. \A i \in Slots : keycodes[i] # k
    BY <1>3 DEF Shown
  <2>4. \A i \in Slots : keycodes'[i] = IF i = First(Free) THEN k ELSE keycodes[i]
    BY <2>1 DEF ReportOK
  <2> QED
    BY <2>1, <2>2, <2>3, <2>4 DEF ReportOK, NoDuplicateKey
<1> QED
  BY <1>1, <1>2, <1>3

LEMMA RemoveKeepsReport ==
  ASSUME ReportOK, NEW k \in AnyKey, Remove(k)
  PROVE  ReportOK'
<1>1. CASE k \in Modifiers
  BY <1>1 DEF Remove, ReportOK, NoDuplicateKey
<1>2. CASE k \notin Modifiers /\ ~Shown(k)
  BY <1>2 DEF Remove, ReportOK, NoDuplicateKey
<1>3. CASE k \notin Modifiers /\ Shown(k)
  <2> DEFINE n == First({i \in Slots : keycodes[i] = k})
  <2>1. keycodes' = [keycodes EXCEPT ![n] = RESERVED] /\ UNCHANGED modifiers
    BY <1>3 DEF Remove
  <2>2. \A i \in Slots : keycodes'[i] = IF i = n THEN RESERVED ELSE keycodes[i]
    BY <2>1 DEF ReportOK
  <2> QED
    BY <2>1, <2>2 DEF ReportOK, NoDuplicateKey
<1> QED
  BY <1>1, <1>2, <1>3

LEMMA RemoveAllKeepsReport ==
  ASSUME RemoveAll
  PROVE  ReportOK'
BY DEF RemoveAll, ReportOK, NoDuplicateKey

LEMMA UnchangedReport ==
  ASSUME ReportOK, UNCHANGED Report
  PROVE  ReportOK'
BY DEF Report, ReportOK, NoDuplicateKey

-----------------------------------------------------------------------------
(* The inductive invariant is TypeOK with NoDuplicateKey: the second needs  *)
(* the first to know what a slot holds.                                     *)

IInv == TypeOK /\ NoDuplicateKey

LEMMA InitIInv == Init => IInv
<1> SUFFICES ASSUME Init PROVE IInv
  OBVIOUS
<1>1. todo \in Seq(Ops)
  BY OpsTyped DEF Init
<1>2. command \in [cmd : Commands, keys : SUBSET AnyKey]
  BY DEF Init, Booted, Commands
<1>3. wire \in Seq(SUBSET AnyKey) /\ Len(wire) <= Banks
  BY KeyAssumption, EmptySeq DEF Init
<1>4. keycodes \in [Slots -> Keys \cup {RESERVED}] /\ NoDuplicateKey
  BY DEF Init, NoDuplicateKey
<1> QED
  BY <1>1, <1>2, <1>3, <1>4 DEF Init, IInv, TypeOK

LEMMA SendReportTyped ==
  ASSUME TypeOK, SendReport
  PROVE  /\ wire' \in Seq(SUBSET AnyKey) /\ Len(wire') <= Banks
         /\ sent' \in BOOLEAN /\ lost' \in BOOLEAN
<1>1. Held \in SUBSET AnyKey
  BY DEF Held, TypeOK, AnyKey
<1>2. Append(wire, Held) \in Seq(SUBSET AnyKey) /\ Len(Append(wire, Held)) = Len(wire) + 1
  BY <1>1, AppendProperties DEF TypeOK
<1>3. Len(wire) \in Nat
  BY LenProperties DEF TypeOK
<1>4. CASE configured /\ Len(wire) < Banks
  <2>1. wire' = Append(wire, Held) /\ sent' = TRUE /\ lost' = lost
    BY <1>4 DEF SendReport
  <2>2. Len(wire) + 1 <= Banks
    BY <1>3, <1>4, KeyAssumption
  <2> QED
    BY <1>2, <2>1, <2>2 DEF TypeOK
<1>5. CASE ~(configured /\ Len(wire) < Banks)
  BY <1>5 DEF SendReport, TypeOK
<1> QED
  BY <1>4, <1>5

(* One operation: the head of todo is well formed, and so is what is left.  *)
LEMMA OperationKeepsIInv ==
  ASSUME IInv, Operation
  PROVE  IInv'
<1> USE DEF IInv
<1>1. ReportOK
  BY DEF ReportOK, TypeOK
<1>2. /\ todo # <<>> /\ Head(todo) \in Ops /\ Tail(todo) \in Seq(Ops)
      /\ <<Send>> \o Tail(todo) \in Seq(Ops) /\ <<>> \in Seq(Ops)
      /\ UNCHANGED <<configured, host, command>>
  <2>1. todo # <<>> /\ UNCHANGED <<configured, host, command>>
    BY DEF Operation, DoAdd, DoRemove, DoSend, DoPress, DoRelease, DoReleaseAll, Do
  <2>2. Head(todo) \in Ops /\ Tail(todo) \in Seq(Ops)
    BY <2>1 DEF TypeOK
  <2> QED
    BY <2>1, <2>2, OpsTyped
<1>3. Head(todo).op \in {"add", "remove", "press", "release"} => Head(todo).key \in AnyKey
  BY <1>2 DEF Ops
<1>4. ReportOK'
  <2>1. CASE DoAdd
    BY <1>1, <1>3, <2>1, AddKeepsReport DEF DoAdd, Do
  <2>2. CASE DoRemove
    BY <1>1, <1>3, <2>2, RemoveKeepsReport DEF DoRemove, Do
  <2>3. CASE DoSend
    BY <1>1, <2>3, UnchangedReport DEF DoSend, Do, SendReport, Report
  <2>4. CASE DoPress
    BY <1>1, <1>3, <2>4, AddKeepsReport DEF DoPress, Do
  <2>5. CASE DoRelease
    BY <1>1, <1>3, <2>5, RemoveKeepsReport DEF DoRelease, Do
  <2>6. CASE DoReleaseAll
    BY <2>6, RemoveAllKeepsReport DEF DoReleaseAll, Do
  <2> QED
    BY <2>1, <2>2, <2>3, <2>4, <2>5, <2>6 DEF Operation
<1>5. todo' \in Seq(Ops)
  BY <1>2 DEF Operation, DoAdd, DoRemove, DoSend, DoPress, DoRelease, DoReleaseAll, Do,
              Continue, ThenSend
<1>6. /\ wire' \in Seq(SUBSET AnyKey) /\ Len(wire') <= Banks
      /\ sent' \in BOOLEAN /\ lost' \in BOOLEAN
  <2>1. CASE DoSend
    BY <2>1, SendReportTyped DEF DoSend, Do
  <2>2. CASE ~DoSend
    <3>1. UNCHANGED <<wire, sent, lost>>
      BY <2>2 DEF Operation, DoAdd, DoRemove, DoPress, DoRelease, DoReleaseAll, Do
    <3> QED
      BY <3>1 DEF TypeOK
  <2> QED
    BY <2>1, <2>2
<1> QED
  BY <1>2, <1>4, <1>5, <1>6 DEF ReportOK, TypeOK

LEMMA NextIInv == IInv /\ [Next]_vars => IInv'
<1> SUFFICES ASSUME IInv, [Next]_vars PROVE IInv'
  OBVIOUS
<1> USE DEF IInv
<1>1. CASE Command
  <2>1. UNCHANGED Report
    BY <1>1 DEF Command, KB_DOWN, KB_UP, KB_PRESS, KB_UP_ALL, KB_COMB_DOWN, KB_COMB_UP,
                KB_COMB_PRESS, KB_SET_LOCK, Begin, Report
  <2> QED
    BY <1>1, <2>1, CommandTyped, UnchangedReport DEF ReportOK, TypeOK
<1>2. CASE Operation
  BY <1>2, OperationKeepsIInv
<1>3. CASE HostTakes
  <2>1. /\ wire' \in Seq(SUBSET AnyKey) /\ Len(wire') = Len(wire) - 1
        /\ host' \in SUBSET AnyKey
    BY <1>3, HeadTailProperties DEF HostTakes, TypeOK
  <2>2. Len(wire') <= Banks
    BY <2>1, KeyAssumption, LenProperties DEF TypeOK
  <2> QED
    BY <1>3, <2>1, <2>2 DEF HostTakes, TypeOK, NoDuplicateKey
<1>4. CASE Reset
  <2>1. ReportOK'
    BY <1>4, RemoveAllKeepsReport DEF Reset
  <2>2. todo' \in Seq(Ops)
    BY <1>4, OpsTyped DEF Reset
  <2>3. command' \in [cmd : Commands, keys : SUBSET AnyKey]
    BY <1>4 DEF Reset, Booted, Commands
  <2>4. wire' \in Seq(SUBSET AnyKey) /\ Len(wire') <= Banks
    BY <1>4, KeyAssumption, EmptySeq DEF Reset
  <2> QED
    BY <1>4, <2>1, <2>2, <2>3, <2>4 DEF Reset, ReportOK, TypeOK
<1>5. CASE BusReset
  <2>1. UNCHANGED <<modifiers, keycodes, todo, command>> /\ host' = {} /\ sent' = FALSE
    BY <1>5 DEF BusReset
  <2>2. wire' \in Seq(SUBSET AnyKey) /\ Len(wire') <= Banks
    BY <1>5, KeyAssumption, EmptySeq DEF BusReset
  <2>3. configured' \in BOOLEAN /\ lost' \in BOOLEAN
    BY <1>5 DEF BusReset
  <2> QED
    BY <2>1, <2>2, <2>3 DEF TypeOK, NoDuplicateKey
<1>6. CASE Configure
  <2>1. wire' \in Seq(SUBSET AnyKey) /\ Len(wire') <= Banks
    BY <1>6, KeyAssumption, EmptySeq DEF Configure
  <2> QED
    BY <1>6, <2>1 DEF Configure, TypeOK, NoDuplicateKey
<1>7. CASE UNCHANGED vars
  BY <1>7 DEF vars, TypeOK, NoDuplicateKey
<1> QED
  BY <1>1, <1>2, <1>3, <1>4, <1>5, <1>6, <1>7 DEF Next

THEOREM Invariance == Spec => []IInv
BY InitIInv, NextIInv, PTL DEF Spec

(* Slots, modifier byte, pending operations and endpoint keep their types,  *)
(* whatever commands the host sends and whenever the device resets.         *)
THEOREM TypeCorrect == Spec => []TypeOK
BY Invariance, PTL DEF IInv

(* No key ever takes two slots of the report: KeyboardAPI's one set(k,      *)
(* false) is enough to release it.                                          *)
THEOREM KeysTakeOneSlot == Spec => []NoDuplicateKey
BY Invariance, PTL DEF IInv

-----------------------------------------------------------------------------
(* The host shows what the firmware holds.  LastShown is what the host will *)
(* have taken when the endpoint is empty; a report is pending while todo    *)
(* has a send.  Whatever changes the report is followed by a send, a press  *)
(* stands alone with its release, and an unconfigured device has sent       *)
(* nothing.                                                                 *)

Latest == IF wire = <<>> THEN host ELSE wire[Len(wire)]

Pending == \E i \in 1..Len(todo) : todo[i].op = "send"

SendFollows ==
  \A i \in 1..Len(todo) : todo[i].op \in {"add", "remove"}
    => \E j \in 1..Len(todo) : i < j /\ todo[j].op = "send"

PressFirst ==
  \A i \in 1..Len(todo) : todo[i].op = "press"
    => i = 1 /\ \A j \in 1..Len(todo) : todo[j].op # "send"

MirrorInv ==
  /\ SendFollows
  /\ PressFirst
  /\ ~configured => ~sent
  /\ sent /\ ~Pending => Latest = Held

(* What begins a command: a list in which changes are followed by a send,   *)
(* without a press, or a press and its release.                             *)
Followed(ops) ==
  /\ \A i \in 1..Len(ops) : ops[i].op # "press"
  /\ \A i \in 1..Len(ops) : ops[i].op \in {"add", "remove"}
       => \E j \in 1..Len(ops) : i < j /\ ops[j].op = "send"

Changes == [op : {"add", "remove"}, key : AnyKey]

LEMMA ChangeTyped ==
  /\ \A o \in {"add", "remove"}, k \in AnyKey : Op(o, k) \in Changes
  /\ \A c \in Changes : c.op # "press"
BY DEF Op, Changes

LEMMA ChangesFollowed ==
  ASSUME NEW ops \in Seq(Ops), \A i \in 1..Len(ops) : ops[i].op # "press"
  PROVE  Followed(ops \o <<Send>>)
<1> DEFINE all == ops \o <<Send>>
<1>1. <<Send>> \in Seq(Ops)
  BY OpsTyped
<1>2. /\ all \in Seq(Ops) /\ Len(all) = Len(ops) + 1 /\ Len(ops) \in Nat
      /\ all[Len(ops) + 1] = Send
      /\ \A i \in 1..Len(ops) : all[i] = ops[i]
  BY <1>1
<1>3. Send.op = "send"
  BY DEF Send, Op
<1> QED
  BY <1>2, <1>3 DEF Followed

LEMMA FollowedConcat ==
  ASSUME NEW s \in Seq(Ops), NEW t \in Seq(Ops), Followed(s), Followed(t)
  PROVE  Followed(s \o t)
<1>1. /\ s \o t \in Seq(Ops) /\ Len(s \o t) = Len(s) + Len(t)
      /\ Len(s) \in Nat /\ Len(t) \in Nat
      /\ \A i \in 1..Len(s) : (s \o t)[i] = s[i]
      /\ \A i \in 1..Len(t) : (s \o t)[i + Len(s)] = t[i]
  OBVIOUS
<1>2. ASSUME NEW i \in 1..Len(s \o t)
      PROVE  /\ (s \o t)[i].op # "press"
             /\ (s \o t)[i].op \in {"add", "remove"}
                  => \E j \in 1..Len(s \o t) : i < j /\ (s \o t)[j].op = "send"
  <2>1. CASE i <= Len(s)
    BY <1>1, <2>1 DEF Followed
  <2>2. CASE i > Len(s)
    <3>1. i - Len(s) \in 1..Len(t) /\ (s \o t)[i] = t[i - Len(s)]
      BY <1>1, <2>2
    <3>2. ASSUME t[i - Len(s)].op \in {"add", "remove"}
          PROVE  \E j \in 1..Len(s \o t) : i < j /\ (s \o t)[j].op = "send"
      <4>1. PICK j \in 1..Len(t) : i - Len(s) < j /\ t[j].op = "send"
        BY <3>1, <3>2 DEF Followed
      <4>2. j + Len(s) \in 1..Len(s \o t) /\ i < j + Len(s)
        BY <1>1, <4>1
      <4> QED
        BY <1>1, <4>1, <4>2
    <3> QED
      BY <3>1, <3>2 DEF Followed
  <2> QED
    BY <1>1, <2>1, <2>2
<1> QED
  BY <1>2 DEF Followed

LEMMA ShiftSteps ==
  ASSUME NEW o \in {"add", "remove"}, NEW k \in AnyKey, NEW s \in BOOLEAN
  PROVE  \A i \in 1..Len(<<Op(o, k)>> \o Shift(o, s)) :
           (<<Op(o, k)>> \o Shift(o, s))[i].op # "press"
<1>1. <<Op(o, k)>> \in Seq(Changes) /\ Shift(o, s) \in Seq(Changes)
  <2>1. Op(o, k) \in Changes /\ Op(o, LEFT_SHIFT) \in Changes
    BY ChangeTyped, KeyAssumption DEF AnyKey
  <2> QED
    BY <2>1 DEF Shift
<1>2. <<Op(o, k)>> \o Shift(o, s) \in Seq(Changes)
  BY <1>1, ConcatProperties
<1> QED
  BY <1>2, ChangeTyped, ElementOfSeq

LEMMA KeyDownFollowed ==
  ASSUME NEW k \in AnyKey, NEW s \in BOOLEAN
  PROVE  Followed(KeyDown(k, s))
<1> DEFINE ops == <<Op("add", k)>> \o Shift("add", s)
<1>1. ops \in Seq(Ops) /\ KeyDown(k, s) = ops \o <<Send>>
  <2>1. Shift("add", s) \in Seq(Ops) /\ <<Op("add", k)>> \in Seq(Ops)
    BY ShiftTyped, OpsTyped
  <2> QED
    BY <2>1 DEF KeyDown
<1>2. \A i \in 1..Len(ops) : ops[i].op # "press"
  BY ShiftSteps
<1> QED
  BY <1>1, <1>2, ChangesFollowed

LEMMA KeyUpFollowed ==
  ASSUME NEW k \in AnyKey, NEW s \in BOOLEAN
  PROVE  Followed(KeyUp(k, s))
<1> DEFINE ops == <<Op("remove", k)>> \o Shift("remove", s)
<1>1. ops \in Seq(Ops) /\ KeyUp(k, s) = ops \o <<Send>>
  <2>1. Shift("remove", s) \in Seq(Ops) /\ <<Op("remove", k)>> \in Seq(Ops)
    BY ShiftTyped, OpsTyped
  <2> QED
    BY <2>1 DEF KeyUp
<1>2. \A i \in 1..Len(ops) : ops[i].op # "press"
  BY ShiftSteps
<1> QED
  BY <1>1, <1>2, ChangesFollowed

LEMMA EachKeyTyped ==
  ASSUME NEW o \in {"add", "remove"}, NEW ks \in Combinations
  PROVE  /\ ks \in Seq(AnyKey)
         /\ EachKey(o, ks) \in Seq(Ops) /\ Len(EachKey(o, ks)) = Len(ks)
         /\ \A i \in 1..Len(ks) : EachKey(o, ks)[i] = Op(o, ks[i])
<1>1. PICK n \in Nat : ks \in [1..n -> AnyKey]
  BY KeyAssumption DEF Combinations
<1>2. ks \in Seq(AnyKey)
  BY <1>1
<1>3. \A i \in 1..Len(ks) : Op(o, ks[i]) \in Ops
  BY <1>2, OpsTyped
<1> QED
  BY <1>2, <1>3 DEF EachKey

LEMMA CombFollowed ==
  ASSUME NEW o \in {"add", "remove"}, NEW ks \in Combinations
  PROVE  Followed(Comb(o, ks))
<1>1. CASE ks = <<>>
  BY <1>1 DEF Comb, Followed
<1>2. CASE ks # <<>>
  <2>1. \A i \in 1..Len(EachKey(o, ks)) : EachKey(o, ks)[i].op # "press"
    BY EachKeyTyped, ChangeTyped
  <2> QED
    BY <1>2, <2>1, EachKeyTyped, ChangesFollowed DEF Comb
<1> QED
  BY <1>1, <1>2

(* A command begins in step with the host, or before a report is due.       *)
LEMMA BeginMirrors ==
  ASSUME TypeOK, MirrorInv, NEW c, NEW ops \in Seq(Ops), Followed(ops), Begin(c, ops)
  PROVE  MirrorInv'
<1>1. todo = <<>> /\ todo' = ops
      /\ UNCHANGED <<modifiers, keycodes, configured, wire, host, sent>>
  BY DEF Begin
<1>2. ~Pending
  BY <1>1 DEF Pending
<1>3. Latest' = Latest /\ Held' = Held
  BY <1>1 DEF Latest, Held
<1>4. SendFollows' /\ PressFirst'
  BY <1>1 DEF SendFollows, PressFirst, Followed
<1> QED
  BY <1>1, <1>2, <1>3, <1>4 DEF MirrorInv

LEMMA CommandMirrors ==
  ASSUME TypeOK, MirrorInv, Command
  PROVE  MirrorInv'
<1>1. CASE KB_DOWN
  BY <1>1, KeyDownTyped, KeyDownFollowed, BeginMirrors DEF KB_DOWN
<1>2. CASE KB_UP
  BY <1>2, KeyUpTyped, KeyUpFollowed, BeginMirrors DEF KB_UP
<1>3. CASE KB_PRESS
  <2>1. PICK k \in AnyKey, s \in BOOLEAN : Begin("KB_PRESS", KeyDown(k, s) \o KeyUp(k, s))
    BY <1>3 DEF KB_PRESS
  <2>2. /\ KeyDown(k, s) \o KeyUp(k, s) \in Seq(Ops)
        /\ Followed(KeyDown(k, s) \o KeyUp(k, s))
    BY KeyDownTyped, KeyUpTyped, KeyDownFollowed, KeyUpFollowed, FollowedConcat
  <2> QED
    BY <2>1, <2>2, BeginMirrors
<1>4. CASE KB_UP_ALL
  <2>1. <<Op("releaseAll", RESERVED)>> \in Seq(Ops)
    BY OpsTyped
  <2>2. Followed(<<Op("releaseAll", RESERVED)>>)
    BY DEF Followed, Op
  <2> QED
    BY <1>4, <2>1, <2>2, BeginMirrors DEF KB_UP_ALL
<1>5. CASE KB_COMB_DOWN
  BY <1>5, CombTyped, CombFollowed, BeginMirrors DEF KB_COMB_DOWN
<1>6. CASE KB_COMB_UP
  BY <1>6, CombTyped, CombFollowed, BeginMirrors DEF KB_COMB_UP
<1>7. CASE KB_COMB_PRESS
  <2>1. PICK ks \in Combinations :
          Begin("KB_COMB_PRESS", Comb("add", ks) \o Comb("remove", ks))
    BY <1>7 DEF KB_COMB_PRESS
  <2>2. /\ Comb("add", ks) \in Seq(Ops) /\ Comb("remove", ks) \in Seq(Ops)
        /\ Followed(Comb("add", ks)) /\ Followed(Comb("remove", ks))
    BY CombTyped, CombFollowed
  <2>3. /\ Comb("add", ks) \o Comb("remove", ks) \in Seq(Ops)
        /\ Followed(Comb("add", ks) \o Comb("remove", ks))
    BY <2>2, FollowedConcat, ConcatProperties
  <2> QED
    BY <2>1, <2>3, BeginMirrors
<1>8. CASE KB_SET_LOCK
  <2>1. PICK k \in LockKeys :
          Begin("KB_SET_LOCK", <<Op("press", k), Op("release", k)>>)
    BY <1>8 DEF KB_SET_LOCK
  <2>2. todo = <<>> /\ todo' = <<Op("press", k), Op("release", k)>>
        /\ UNCHANGED <<modifiers, keycodes, configured, wire, host, sent>>
    BY <2>1 DEF Begin
  <2>3. SendFollows' /\ PressFirst' /\ ~Pending
    BY <2>2 DEF SendFollows, PressFirst, Pending, Op
  <2>4. Latest' = Latest /\ Held' = Held
    BY <2>2 DEF Latest, Held
  <2> QED
    BY <2>2, <2>3, <2>4 DEF MirrorInv
<1> QED
  BY <1>1, <1>2, <1>3, <1>4, <1>5, <1>6, <1>7, <1>8 DEF Command

(* An operation takes the head of todo, or puts a send in its place. *)
LEMMA Popped ==
  ASSUME TypeOK, todo # <<>>
  PROVE  /\ Len(todo) \in Nat \ {0} /\ Head(todo) = todo[1] /\ Head(todo) \in Ops
         /\ Tail(todo) \in Seq(Ops) /\ Len(Tail(todo)) = Len(todo) - 1
         /\ \A i \in 1..Len(todo) - 1 : Tail(todo)[i] = todo[i + 1]
         /\ Len(<<Send>> \o Tail(todo)) = Len(todo)
         /\ (<<Send>> \o Tail(todo))[1] = Send
         /\ \A i \in 2..Len(todo) : (<<Send>> \o Tail(todo))[i] = todo[i]
<1>1. todo \in Seq(Ops)
  BY DEF TypeOK
<1>2. /\ Len(todo) \in Nat \ {0} /\ Head(todo) = todo[1] /\ Head(todo) \in Ops
      /\ Tail(todo) \in Seq(Ops) /\ Len(Tail(todo)) = Len(todo) - 1
      /\ \A i \in 1..Len(todo) - 1 : Tail(todo)[i] = todo[i + 1]
  BY <1>1
<1>3. <<Send>> \in Seq(Ops) /\ Len(<<Send>>) = 1 /\ <<Send>>[1] = Send
  BY OpsTyped
<1>4. Len(<<Send>> \o Tail(todo)) = Len(todo)
  BY <1>2, <1>3
<1>5. (<<Send>> \o Tail(todo))[1] = Send
  BY <1>2, <1>3
<1>6. ASSUME NEW i \in 2..Len(todo)
      PROVE  (<<Send>> \o Tail(todo))[i] = todo[i]
  <2>1. i - 1 \in 1..Len(Tail(todo))
    BY <1>2
  <2>2. (<<Send>> \o Tail(todo))[i] = Tail(todo)[i - 1]
    BY <1>2, <1>3, <2>1
  <2> QED
    BY <1>2, <2>1, <2>2
<1> QED
  BY <1>2, <1>4, <1>5, <1>6

LEMMA ContinueFollows ==
  ASSUME TypeOK, SendFollows, PressFirst, todo # <<>>, Continue
  PROVE  /\ SendFollows' /\ PressFirst'
         /\ Head(todo).op \in {"add", "remove"} => Pending'
         /\ Head(todo).op # "send" => (Pending' <=> Pending)
<1>1. /\ Len(todo) \in Nat \ {0} /\ Head(todo) = todo[1]
      /\ Len(todo') = Len(todo) - 1
      /\ \A i \in 1..Len(todo) - 1 : todo'[i] = todo[i + 1]
  BY Popped DEF Continue
<1>2. \A i \in 1..Len(todo') : todo'[i] = todo[i + 1] /\ i + 1 \in 1..Len(todo)
  BY <1>1
<1>3. \A j \in 1..Len(todo) : 1 < j => j - 1 \in 1..Len(todo') /\ todo'[j - 1] = todo[j]
  BY <1>1
<1>4. SendFollows'
  <2> SUFFICES ASSUME NEW i \in 1..Len(todo'), todo'[i].op \in {"add", "remove"}
               PROVE  \E j \in 1..Len(todo') : i < j /\ todo'[j].op = "send"
    BY DEF SendFollows
  <2>1. PICK j \in 1..Len(todo) : i + 1 < j /\ todo[j].op = "send"
    BY <1>2 DEF SendFollows
  <2>2. 1 < j /\ i < j - 1
    BY <1>1, <2>1
  <2> QED
    BY <1>3, <2>1, <2>2
<1>5. PressFirst'
  <2>1. \A i \in 1..Len(todo') : todo'[i].op # "press"
    BY <1>1, <1>2 DEF PressFirst
  <2> QED
    BY <2>1 DEF PressFirst
<1>6. Head(todo).op \in {"add", "remove"} => Pending'
  <2> SUFFICES ASSUME Head(todo).op \in {"add", "remove"} PROVE Pending'
    OBVIOUS
  <2>1. PICK j \in 1..Len(todo) : 1 < j /\ todo[j].op = "send"
    BY <1>1 DEF SendFollows
  <2> QED
    BY <1>3, <2>1 DEF Pending
<1>7. Head(todo).op # "send" => (Pending' <=> Pending)
  <2> SUFFICES ASSUME Head(todo).op # "send" PROVE Pending' <=> Pending
    OBVIOUS
  <2>1. ASSUME Pending PROVE Pending'
    <3>1. PICK j \in 1..Len(todo) : todo[j].op = "send"
      BY <2>1 DEF Pending
    <3>2. 1 < j
      BY <1>1, <3>1
    <3> QED
      BY <1>3, <3>1, <3>2 DEF Pending
  <2>2. ASSUME Pending' PROVE Pending
    BY <1>2, <2>2 DEF Pending
  <2> QED
    BY <2>1, <2>2
<1> QED
  BY <1>4, <1>5, <1>6, <1>7

LEMMA ThenSendFollows ==
  ASSUME TypeOK, SendFollows, PressFirst, todo # <<>>, ThenSend
  PROVE  SendFollows' /\ PressFirst' /\ Pending'
<1>1. /\ Len(todo) \in Nat \ {0} /\ Len(todo') = Len(todo) /\ todo'[1] = Send
      /\ \A i \in 2..Len(todo) : todo'[i] = todo[i]
  BY Popped DEF ThenSend
<1>2. Send.op = "send"
  BY DEF Send, Op
<1>3. SendFollows'
  <2> SUFFICES ASSUME NEW i \in 1..Len(todo'), todo'[i].op \in {"add", "remove"}
               PROVE  \E j \in 1..Len(todo') : i < j /\ todo'[j].op = "send"
    BY DEF SendFollows
  <2>1. i \in 2..Len(todo) /\ todo[i].op \in {"add", "remove"}
    BY <1>1, <1>2
  <2>2. PICK j \in 1..Len(todo) : i < j /\ todo[j].op = "send"
    BY <2>1 DEF SendFollows
  <2>3. j \in 2..Len(todo) /\ j \in 1..Len(todo')
    BY <1>1, <2>1, <2>2
  <2> QED
    BY <1>1, <2>2, <2>3
<1>4. PressFirst'
  <2>1. \A i \in 1..Len(todo') : todo'[i].op # "press"
    BY <1>1, <1>2 DEF PressFirst
  <2> QED
    BY <2>1 DEF PressFirst
<1>5. Pending'
  BY <1>1, <1>2 DEF Pending
<1> QED
  BY <1>3, <1>4, <1>5

LEMMA HeldOfReport ==
  ASSUME UNCHANGED Report
  PROVE  Held' = Held
BY DEF Report, Held

LEMMA OperationMirrors ==
  ASSUME TypeOK, MirrorInv, Operation
  PROVE  MirrorInv'
<1> USE DEF MirrorInv
<1>1. todo # <<>> /\ UNCHANGED <<configured, host>>
  BY DEF Operation, DoAdd, DoRemove, DoSend, DoPress, DoRelease, DoReleaseAll, Do
<1>2. CASE DoAdd
  <2>1. Head(todo).op = "add" /\ Continue /\ UNCHANGED sent
    BY <1>2 DEF DoAdd, Do
  <2> QED
    BY <1>1, <2>1, ContinueFollows
<1>3. CASE DoRemove
  <2>1. Head(todo).op = "remove" /\ Continue /\ UNCHANGED sent
    BY <1>3 DEF DoRemove, Do
  <2> QED
    BY <1>1, <2>1, ContinueFollows
<1>4. CASE DoSend
  <2>1. SendReport /\ Continue
    BY <1>4 DEF DoSend, Do
  <2>2. Held' = Held
    BY <2>1, HeldOfReport DEF SendReport, Report
  <2>3. CASE configured /\ Len(wire) < Banks
    <3>1. wire' = Append(wire, Held) /\ wire \in Seq(SUBSET AnyKey)
      BY <2>1, <2>3 DEF SendReport, TypeOK
    <3>2. wire' # <<>> /\ wire'[Len(wire')] = Held
      <4>1. Len(wire') = Len(wire) + 1 /\ wire'[Len(wire) + 1] = Held /\ Len(wire) \in Nat
        BY <3>1
      <4> QED
        BY <4>1
    <3>3. Latest' = Held'
      BY <2>2, <3>2 DEF Latest
    <3> QED
      BY <1>1, <2>1, <2>3, <3>3, ContinueFollows
  <2>4. CASE ~(configured /\ Len(wire) < Banks)
    <3>1. sent' = FALSE
      BY <2>1, <2>4 DEF SendReport
    <3> QED
      BY <1>1, <2>1, <3>1, ContinueFollows
  <2> QED
    BY <2>3, <2>4
<1>5. CASE DoPress
  <2>1. /\ Head(todo).op = "press" /\ Add(Head(todo).key)
        /\ IF CanAdd(Head(todo).key) THEN ThenSend ELSE todo' = <<>>
        /\ UNCHANGED <<wire, sent>>
    BY <1>5 DEF DoPress, Do
  <2>2. CASE CanAdd(Head(todo).key)
    BY <1>1, <2>1, <2>2, ThenSendFollows
  <2>3. CASE ~CanAdd(Head(todo).key)
    <3>1. todo' = <<>> /\ UNCHANGED Report
      BY <2>1, <2>3 DEF CanAdd, Add, Report
    <3>2. ~Pending
      <4>1. todo[1].op = "press" /\ 1 \in 1..Len(todo)
        BY <1>1, <2>1, Popped
      <4> QED
        BY <4>1 DEF PressFirst, Pending
    <3>3. SendFollows' /\ PressFirst'
      BY <3>1 DEF SendFollows, PressFirst
    <3>4. Latest' = Latest /\ Held' = Held
      BY <1>1, <2>1, <3>1, HeldOfReport DEF Latest
    <3> QED
      BY <1>1, <2>1, <3>2, <3>3, <3>4
  <2> QED
    BY <2>2, <2>3
<1>6. CASE DoRelease
  <2>1. /\ Head(todo).op = "release" /\ Remove(Head(todo).key)
        /\ IF CanRemove(Head(todo).key) THEN ThenSend ELSE Continue
        /\ UNCHANGED <<wire, sent>>
    BY <1>6 DEF DoRelease, Do
  <2>2. CASE CanRemove(Head(todo).key)
    BY <1>1, <2>1, <2>2, ThenSendFollows
  <2>3. CASE ~CanRemove(Head(todo).key)
    <3>1. Continue /\ UNCHANGED Report
      BY <2>1, <2>3 DEF CanRemove, Remove, Report
    <3>2. Latest' = Latest /\ Held' = Held
      BY <1>1, <2>1, <3>1, HeldOfReport DEF Latest
    <3> QED
      BY <1>1, <2>1, <3>1, <3>2, ContinueFollows
  <2> QED
    BY <2>2, <2>3
<1>7. CASE DoReleaseAll
  <2>1. /\ Head(todo).op = "releaseAll" /\ RemoveAll
        /\ IF Held # {} THEN ThenSend ELSE Continue
        /\ UNCHANGED <<wire, sent>>
    BY <1>7 DEF DoReleaseAll, Do
  <2>2. CASE Held # {}
    BY <1>1, <2>1, <2>2, ThenSendFollows
  <2>3. CASE Held = {}
    <3>1. Held' = {}
      BY <2>1 DEF RemoveAll, Held
    <3>2. Latest' = Latest
      BY <1>1, <2>1 DEF Latest
    <3> QED
      BY <1>1, <2>1, <2>3, <3>1, <3>2, ContinueFollows
  <2> QED
    BY <2>2, <2>3
<1> QED
  BY <1>2, <1>3, <1>4, <1>5, <1>6, <1>7 DEF Operation

LEMMA InitMirrors == Init => MirrorInv
<1> SUFFICES ASSUME Init PROVE MirrorInv
  OBVIOUS
<1>1. todo = <<Send>> /\ sent = FALSE
  BY DEF Init
<1>2. SendFollows /\ PressFirst
  BY <1>1 DEF SendFollows, PressFirst, Send, Op
<1> QED
  BY <1>1, <1>2 DEF MirrorInv

LEMMA NextMirrors == TypeOK /\ MirrorInv /\ [Next]_vars => MirrorInv'
<1> SUFFICES ASSUME TypeOK, MirrorInv, [Next]_vars PROVE MirrorInv'
  OBVIOUS
<1> USE DEF MirrorInv
<1>1. CASE Command
  BY <1>1, CommandMirrors
<1>2. CASE Operation
  BY <1>2, OperationMirrors
<1>3. CASE HostTakes
  <2>1. /\ wire # <<>> /\ host' = Head(wire) /\ wire' = Tail(wire)
        /\ UNCHANGED <<modifiers, keycodes, todo, configured, sent>>
    BY <1>3 DEF HostTakes
  <2>2. wire \in Seq(SUBSET AnyKey)
    BY DEF TypeOK
  <2>3. Latest' = Latest
    <3>1. CASE Len(wire) = 1
      <4>1. wire' = <<>> /\ host' = wire[1]
        BY <2>1, <2>2, <3>1
      <4> QED
        BY <2>1, <3>1, <4>1 DEF Latest
    <3>2. CASE Len(wire) # 1
      <4>0. Len(wire) \in Nat \ {0}
        BY <2>1, <2>2, EmptySeq
      <4>1. Len(wire') = Len(wire) - 1 /\ Len(wire) \in Nat /\ Len(wire) > 1
        <5>1. Len(Tail(wire)) = Len(wire) - 1
          BY <2>1, <2>2, HeadTailProperties
        <5> QED
          BY <2>1, <3>2, <4>0, <5>1
      <4>2. wire' # <<>>
        BY <4>1, EmptySeq
      <4>3. \A i \in 1..Len(wire) - 1 : wire'[i] = wire[i + 1]
        BY <2>1, <2>2, <4>1, HeadTailProperties
      <4>4. Len(wire) - 1 \in 1..Len(wire) - 1 /\ (Len(wire) - 1) + 1 = Len(wire)
        BY <4>1
      <4>5. wire'[Len(wire')] = wire[Len(wire)]
        BY <4>1, <4>3, <4>4
      <4> QED
        BY <2>1, <4>2, <4>5 DEF Latest
    <3> QED
      BY <3>1, <3>2
  <2>4. Held' = Held /\ (Pending' <=> Pending)
    BY <2>1 DEF Held, Pending
  <2>5. SendFollows' /\ PressFirst'
    BY <2>1 DEF SendFollows, PressFirst
  <2> QED
    BY <2>1, <2>3, <2>4, <2>5
<1>4. CASE Reset
  <2>1. todo' = <<Send>> /\ sent' = FALSE
    BY <1>4 DEF Reset
  <2>2. SendFollows' /\ PressFirst'
    BY <2>1 DEF SendFollows, PressFirst, Send, Op
  <2> QED
    BY <2>1, <2>2
<1>5. CASE BusReset
  BY <1>5 DEF BusReset, SendFollows, PressFirst
<1>6. CASE Configure
  BY <1>6 DEF Configure, SendFollows, PressFirst
<1>7. CASE UNCHANGED vars
  BY <1>7 DEF vars, SendFollows, PressFirst, Pending, Latest, Held
<1> QED
  BY <1>1, <1>2, <1>3, <1>4, <1>5, <1>6, <1>7 DEF Next

(* Between commands, once the host has taken what is in the endpoint, it    *)
(* holds exactly the keys of the firmware's report, unless that report was  *)
(* given up.                                                                *)
THEOREM HostAgrees == Spec => []HostMirrorsReport
<1>1. TypeOK /\ MirrorInv => HostMirrorsReport
  BY DEF MirrorInv, HostMirrorsReport, Pending, Latest
<1>2. Init => MirrorInv
  BY InitMirrors
<1>3. TypeOK /\ MirrorInv /\ [Next]_vars => MirrorInv'
  BY NextMirrors
<1> QED
  BY <1>1, <1>2, <1>3, TypeCorrect, PTL DEF Spec

-----------------------------------------------------------------------------
(* A press command leaves none of its keys.  Each key it names either has a *)
(* removal to come that no addition of it follows, or is gone with none to  *)
(* come; a press that finds no slot drops the list, and with it nothing but *)
(* its own key was named.                                                   *)

PressCommands == {"KB_PRESS", "KB_COMB_PRESS", "KB_SET_LOCK"}

Takes(i, k) == todo[i].op \in {"remove", "release"} /\ todo[i].key = k
Gives(i, k) == todo[i].op \in {"add", "press"} /\ todo[i].key = k

Due(k) == \E i \in 1..Len(todo) :
            Takes(i, k) /\ \A j \in 1..Len(todo) : Gives(j, k) => j < i

Gone(k) == k \notin Held /\ \A j \in 1..Len(todo) : ~Gives(j, k)

PressesAlone ==
  \A i \in 1..Len(todo) : todo[i].op = "press" => command.keys = {todo[i].key}

PressInv ==
  /\ command.cmd \in PressCommands => \A k \in command.keys : Due(k) \/ Gone(k)
  /\ PressesAlone

(* What an operation does to the set of keys. *)
LEMMA AddHolds ==
  ASSUME ReportOK, NEW k \in AnyKey, Add(k)
  PROVE  Held' \subseteq Held \cup {k}
<1>1. CASE k \in Modifiers
  BY <1>1 DEF Add, Held
<1>2. CASE k \notin Modifiers /\ (Shown(k) \/ Free = {})
  BY <1>2 DEF Add, Held
<1>3. CASE k \notin Modifiers /\ ~Shown(k) /\ Free # {}
  <2>1. keycodes' = [keycodes EXCEPT ![First(Free)] = k] /\ UNCHANGED modifiers
    BY <1>3 DEF Add
  <2>2. \A i \in Slots : keycodes'[i] = IF i = First(Free) THEN k ELSE keycodes[i]
    BY <2>1 DEF ReportOK
  <2> QED
    BY <2>1, <2>2 DEF Held
<1> QED
  BY <1>1, <1>2, <1>3

LEMMA RemoveHolds ==
  ASSUME ReportOK, NEW k \in AnyKey, Remove(k)
  PROVE  Held' \subseteq Held \ {k}
<1>0. Keys \cap Modifiers = {} /\ RESERVED \notin Keys \cup Modifiers
  BY KeyAssumption
<1>1. CASE k \in Modifiers
  <2>1. \A i \in Slots : keycodes[i] # k
    BY <1>0, <1>1 DEF ReportOK
  <2> QED
    BY <1>1, <2>1 DEF Remove, Held
<1>2. CASE k \notin Modifiers /\ ~Shown(k)
  BY <1>2 DEF Remove, Held, Shown, ReportOK
<1>3. CASE k \notin Modifiers /\ Shown(k)
  <2> DEFINE S == {i \in Slots : keycodes[i] = k}
             n == First(S)
  <2>1. keycodes' = [keycodes EXCEPT ![n] = RESERVED] /\ UNCHANGED modifiers
    BY <1>3 DEF Remove
  <2>2. \A i \in Slots : keycodes'[i] = IF i = n THEN RESERVED ELSE keycodes[i]
    BY <2>1 DEF ReportOK
  <2>3. k # RESERVED
    BY <1>0 DEF AnyKey
  <2>4. \E i \in Slots : keycodes[i] = k /\ S = {i}
    BY <1>3, <2>3 DEF Shown, ReportOK, NoDuplicateKey
  <2>5. PICK m \in Slots : keycodes[m] = k /\ S = {m}
    BY <2>4
  <2>6. n = m
    <3>1. \A j \in {m} : m <= j
      BY <2>5 DEF Slots
    <3>2. First({m}) = m
      BY <3>1 DEF First
    <3> QED
      BY <2>5, <3>2
  <2> HIDE DEF n
  <2>7. \A i \in Slots : keycodes'[i] # RESERVED => keycodes'[i] = keycodes[i] /\ keycodes[i] # k
    BY <2>2, <2>5, <2>6
  <2>8. modifiers' = modifiers /\ k \notin modifiers
    BY <1>3, <2>1 DEF ReportOK
  <2> QED
    BY <2>7, <2>8 DEF Held
<1> QED
  BY <1>1, <1>2, <1>3

(* What an operation leaves of the list. *)
LEMMA Shifted ==
  ASSUME TypeOK, todo # <<>>, Continue \/ ThenSend
  PROVE  /\ \A i \in 1..Len(todo') : todo'[i] = Send \/ \E j \in 2..Len(todo) : todo'[i] = todo[j]
         /\ \A k : (\E i \in 2..Len(todo) :
                      Takes(i, k) /\ \A j \in 1..Len(todo) : Gives(j, k) => j < i)
                   => Due(k)'
<1>0. Send.op = "send"
  BY DEF Send, Op
<1>1. CASE Continue
  <2>1. /\ Len(todo) \in Nat \ {0} /\ Len(todo') = Len(todo) - 1
        /\ \A i \in 1..Len(todo) - 1 : todo'[i] = todo[i + 1]
    BY <1>1, Popped DEF Continue
  <2>2. \A i \in 1..Len(todo') : i + 1 \in 2..Len(todo) /\ todo'[i] = todo[i + 1]
    BY <2>1
  <2>3. ASSUME NEW k, NEW i \in 2..Len(todo), Takes(i, k),
               \A j \in 1..Len(todo) : Gives(j, k) => j < i
        PROVE  Due(k)'
    <3>1. i - 1 \in 1..Len(todo') /\ todo'[i - 1] = todo[i]
      BY <2>1
    <3>2. \A j \in 1..Len(todo') : Gives(j, k)' => j < i - 1
      <4> SUFFICES ASSUME NEW j \in 1..Len(todo'), Gives(j, k)' PROVE j < i - 1
        OBVIOUS
      <4>1. j + 1 \in 1..Len(todo) /\ Gives(j + 1, k)
        BY <2>1, <2>2 DEF Gives
      <4>2. j + 1 < i
        BY <2>3, <4>1
      <4> QED
        BY <2>1, <4>2
    <3>3. Takes(i - 1, k)'
      BY <2>3, <3>1 DEF Takes
    <3> QED
      BY <3>1, <3>2, <3>3 DEF Due
  <2> QED
    BY <2>2, <2>3
<1>2. CASE ThenSend
  <2>1. /\ Len(todo) \in Nat \ {0} /\ Len(todo') = Len(todo) /\ todo'[1] = Send
        /\ \A i \in 2..Len(todo) : todo'[i] = todo[i]
    BY <1>2, Popped DEF ThenSend
  <2>2. \A i \in 1..Len(todo') : todo'[i] = Send \/ (i \in 2..Len(todo) /\ todo'[i] = todo[i])
    BY <2>1
  <2>3. ASSUME NEW k, NEW i \in 2..Len(todo), Takes(i, k),
               \A j \in 1..Len(todo) : Gives(j, k) => j < i
        PROVE  Due(k)'
    <3>1. i \in 1..Len(todo') /\ Takes(i, k)'
      BY <2>1, <2>3 DEF Takes
    <3>2. \A j \in 1..Len(todo') : Gives(j, k)' => j < i
      BY <1>0, <2>1, <2>2, <2>3 DEF Gives
    <3> QED
      BY <3>1, <3>2 DEF Due
  <2> QED
    BY <2>2, <2>3
<1> QED
  BY <1>1, <1>2

(* The keys of a command whose list is used up one by one. *)
LEMMA KeysGoOn ==
  ASSUME TypeOK, todo # <<>>, Continue \/ ThenSend, PressInv,
         UNCHANGED command,
         \A x \in Held' : x \in Held \/ Gives(1, x),
         \A x : Takes(1, x) => x \notin Held'
  PROVE  PressInv'
<1>0. /\ Send.op = "send" /\ Len(todo) \in Nat \ {0}
  BY Popped DEF Send, Op
<1>1. /\ \A i \in 1..Len(todo') : todo'[i] = Send \/ \E j \in 2..Len(todo) : todo'[i] = todo[j]
      /\ \A k : (\E i \in 2..Len(todo) :
                   Takes(i, k) /\ \A j \in 1..Len(todo) : Gives(j, k) => j < i)
                => Due(k)'
  BY Shifted
<1>2. \A k : (\A j \in 2..Len(todo) : ~Gives(j, k)) => \A j \in 1..Len(todo') : ~Gives(j, k)'
  BY <1>0, <1>1 DEF Gives
<1>3. PressesAlone'
  BY <1>0, <1>1 DEF PressInv, PressesAlone
<1>4. ASSUME command'.cmd \in PressCommands, NEW k \in command'.keys
      PROVE  Due(k)' \/ Gone(k)'
  <2>1. Due(k) \/ Gone(k)
    BY <1>4 DEF PressInv
  <2>2. CASE Due(k)
    <3>1. PICK i \in 1..Len(todo) :
            Takes(i, k) /\ \A j \in 1..Len(todo) : Gives(j, k) => j < i
      BY <2>2 DEF Due
    <3>2. CASE i = 1
      <4>1. \A j \in 2..Len(todo) : ~Gives(j, k)
        BY <1>0, <3>1, <3>2
      <4>2. k \notin Held'
        BY <3>1, <3>2
      <4> QED
        BY <1>2, <4>1, <4>2 DEF Gone
    <3>3. CASE i # 1
      <4>1. i \in 2..Len(todo)
        BY <1>0, <3>3
      <4> QED
        BY <1>1, <3>1, <4>1
    <3> QED
      BY <3>2, <3>3
  <2>3. CASE Gone(k)
    <3>1. \A j \in 1..Len(todo) : ~Gives(j, k)
      BY <2>3 DEF Gone
    <3>2. k \notin Held'
      BY <1>0, <2>3, <3>1 DEF Gone
    <3>3. \A j \in 2..Len(todo) : ~Gives(j, k)
      BY <1>0, <3>1
    <3> QED
      BY <1>2, <3>2, <3>3 DEF Gone
  <2> QED
    BY <2>1, <2>2, <2>3
<1> QED
  BY <1>3, <1>4 DEF PressInv

LEMMA OperationKeepsPress ==
  ASSUME IInv, PressInv, Operation
  PROVE  PressInv'
<1> USE DEF IInv
<1>1. ReportOK
  BY DEF ReportOK, TypeOK
<1>2. todo # <<>> /\ UNCHANGED command
  BY DEF Operation, DoAdd, DoRemove, DoSend, DoPress, DoRelease, DoReleaseAll, Do
<1>3. Head(todo) = todo[1] /\ Head(todo) \in Ops /\ 1 \in 1..Len(todo)
  BY <1>2, Popped
<1>4. Head(todo).op \in {"add", "remove", "press", "release"} => Head(todo).key \in AnyKey
  BY <1>3 DEF Ops
<1>5. CASE DoAdd
  <2>1. Head(todo).op = "add" /\ Add(Head(todo).key) /\ Continue
    BY <1>5 DEF DoAdd, Do
  <2>2. Held' \subseteq Held \cup {Head(todo).key}
    BY <1>1, <1>4, <2>1, AddHolds
  <2>3. /\ \A x \in Held' : x \in Held \/ Gives(1, x)
        /\ \A x : ~Takes(1, x)
    BY <1>3, <2>1, <2>2 DEF Gives, Takes
  <2> QED
    BY <1>2, <2>1, <2>3, KeysGoOn
<1>6. CASE DoRemove
  <2>1. Head(todo).op = "remove" /\ Remove(Head(todo).key) /\ Continue
    BY <1>6 DEF DoRemove, Do
  <2>2. Held' \subseteq Held \ {Head(todo).key}
    BY <1>1, <1>4, <2>1, RemoveHolds
  <2>3. /\ \A x \in Held' : x \in Held
        /\ \A x : Takes(1, x) => x \notin Held'
    BY <1>3, <2>2 DEF Takes
  <2> QED
    BY <1>2, <2>1, <2>3, KeysGoOn
<1>7. CASE DoSend
  <2>1. Head(todo).op = "send" /\ UNCHANGED Report /\ Continue
    BY <1>7 DEF DoSend, Do, SendReport, Report
  <2>2. Held' = Held
    BY <2>1, HeldOfReport
  <2>3. \A x : ~Takes(1, x)
    BY <1>3, <2>1 DEF Takes
  <2> QED
    BY <1>2, <2>1, <2>2, <2>3, KeysGoOn
<1>8. CASE DoPress
  <2>1. /\ Head(todo).op = "press" /\ Add(Head(todo).key)
        /\ IF CanAdd(Head(todo).key) THEN ThenSend ELSE todo' = <<>>
    BY <1>8 DEF DoPress, Do
  <2>2. CASE CanAdd(Head(todo).key)
    <3>1. Held' \subseteq Held \cup {Head(todo).key}
      BY <1>1, <1>4, <2>1, AddHolds
    <3>2. /\ \A x \in Held' : x \in Held \/ Gives(1, x)
          /\ \A x : ~Takes(1, x)
      BY <1>3, <2>1, <3>1 DEF Gives, Takes
    <3> QED
      BY <1>2, <2>1, <2>2, <3>2, KeysGoOn
  <2>3. CASE ~CanAdd(Head(todo).key)
    <3>1. todo' = <<>> /\ UNCHANGED Report
      BY <2>1, <2>3 DEF CanAdd, Add, Report
    <3>2. Head(todo).key \notin Held
      BY <1>1, <2>3 DEF CanAdd, Shown, Held, ReportOK
    <3>3. command.keys = {Head(todo).key}
      BY <1>3, <2>1 DEF PressInv, PressesAlone
    <3>4. Len(todo') = 0
      BY <3>1
    <3>5. \A k \in command'.keys : Gone(k)'
      BY <1>2, <3>1, <3>2, <3>3, <3>4, HeldOfReport DEF Gone
    <3> QED
      BY <3>4, <3>5 DEF PressInv, PressesAlone
  <2> QED
    BY <2>2, <2>3
<1>9. CASE DoRelease
  <2>1. Head(todo).op = "release" /\ Remove(Head(todo).key) /\ (Continue \/ ThenSend)
    BY <1>9 DEF DoRelease, Do
  <2>2. Held' \subseteq Held \ {Head(todo).key}
    BY <1>1, <1>4, <2>1, RemoveHolds
  <2>3. /\ \A x \in Held' : x \in Held
        /\ \A x : Takes(1, x) => x \notin Held'
    BY <1>3, <2>2 DEF Takes
  <2> QED
    BY <1>2, <2>1, <2>3, KeysGoOn
<1>10. CASE DoReleaseAll
  <2>1. RemoveAll /\ (Continue \/ ThenSend)
    BY <1>10 DEF DoReleaseAll, Do
  <2>2. Held' = {}
    BY <2>1 DEF RemoveAll, Held
  <2> QED
    BY <1>2, <2>1, <2>2, KeysGoOn
<1> QED
  BY <1>5, <1>6, <1>7, <1>8, <1>9, <1>10 DEF Operation

(* How a command that presses is built: first only additions, then only     *)
(* removals, among them one of each key that was added.                     *)
PressPair(a, b) ==
  /\ \A i \in 1..Len(a) :
       \/ a[i] = Send
       \/ a[i].op = "add" /\ \E m \in 1..Len(b) : b[m].op = "remove" /\ b[m].key = a[i].key
  /\ \A i \in 1..Len(b) : b[i] = Send \/ b[i].op = "remove"

LEMMA PairIsDue ==
  ASSUME NEW a \in Seq(Ops), NEW b \in Seq(Ops), PressPair(a, b), todo' = a \o b
  PROVE  \A k \in Named(a \o b) : Due(k)'
<1>1. /\ Len(todo') = Len(a) + Len(b) /\ Len(a) \in Nat /\ Len(b) \in Nat
      /\ \A i \in 1..Len(a) : todo'[i] = a[i]
      /\ \A i \in 1..Len(b) : Len(a) + i \in 1..Len(todo') /\ todo'[Len(a) + i] = b[i]
  BY ConcatProperties
<1>2. Send.op = "send" /\ Send.key = RESERVED
  BY DEF Send, Op
<1>3. \A j \in 1..Len(todo') : j > Len(a) => j - Len(a) \in 1..Len(b) /\ todo'[j] = b[j - Len(a)]
  BY <1>1
<1>4. \A j \in 1..Len(todo') : \A k : Gives(j, k)' => j <= Len(a)
  BY <1>1, <1>2, <1>3 DEF Gives, PressPair
<1>5. \A m \in 1..Len(b) : \A k : b[m].op = "remove" /\ b[m].key = k => Due(k)'
  <2> SUFFICES ASSUME NEW m \in 1..Len(b), NEW k, b[m].op = "remove", b[m].key = k
               PROVE  Due(k)'
    OBVIOUS
  <2>1. Len(a) + m \in 1..Len(todo') /\ Takes(Len(a) + m, k)'
    BY <1>1 DEF Takes
  <2>2. \A j \in 1..Len(todo') : Gives(j, k)' => j < Len(a) + m
    BY <1>1, <1>4
  <2> QED
    BY <2>1, <2>2 DEF Due
<1>6. ASSUME NEW k \in Named(a \o b) PROVE Due(k)'
  <2>1. PICK i \in 1..Len(todo') : todo'[i].key = k /\ k # RESERVED
    BY DEF Named
  <2>2. CASE i <= Len(a)
    <3>1. i \in 1..Len(a) /\ a[i].key = k /\ a[i] # Send
      BY <1>1, <1>2, <2>1, <2>2
    <3> QED
      BY <1>5, <3>1 DEF PressPair
  <2>3. CASE i > Len(a)
    <3>1. i - Len(a) \in 1..Len(b) /\ b[i - Len(a)].key = k /\ b[i - Len(a)] # Send
      BY <1>2, <1>3, <2>1, <2>3
    <3> QED
      BY <1>5, <3>1 DEF PressPair
  <2> QED
    BY <1>1, <2>2, <2>3
<1> QED
  BY <1>6

LEMMA JoinOne ==
  ASSUME NEW S, NEW x \in Seq(S), NEW e \in S
  PROVE  /\ x \o <<e>> \in Seq(S) /\ Len(x \o <<e>>) = Len(x) + 1
         /\ \A i \in 1..Len(x) : (x \o <<e>>)[i] = x[i]
         /\ (x \o <<e>>)[Len(x) + 1] = e
<1>1. x \o <<e>> = Append(x, e)
  BY AppendIsConcat
<1> QED
  BY <1>1, AppendProperties

LEMMA KeyList ==
  ASSUME NEW o \in {"add", "remove"}, NEW k \in AnyKey, NEW s \in BOOLEAN, NEW L,
         L = <<Op(o, k)>> \o Shift(o, s) \o <<Send>>
  PROVE  /\ Len(L) = IF s THEN 3 ELSE 2
         /\ L[1] = Op(o, k) /\ L[IF s THEN 3 ELSE 2] = Send
         /\ s => L[2] = Op(o, LEFT_SHIFT)
<1>1. /\ Op(o, k) \in Ops /\ Op(o, LEFT_SHIFT) \in Ops /\ Send \in Ops
  BY OpsTyped, KeyAssumption DEF AnyKey
<1> DEFINE p == Op(o, k)
           q == Op(o, LEFT_SHIFT)
<1>2. Shift(o, s) = IF s THEN <<q>> ELSE <<>>
  BY DEF Shift
<1> HIDE DEF p, q
<1>3. L = <<p>> \o (IF s THEN <<q>> ELSE <<>>) \o <<Send>>
  BY <1>2 DEF p
<1>4. p \in Ops /\ q \in Ops /\ Send \in Ops
  BY <1>1 DEF p, q
<1> DEFINE one == <<p>>
           two == one \o <<q>>
<1>5. one \in Seq(Ops) /\ Len(one) = 1 /\ one[1] = p
  BY <1>4
<1>6. CASE s
  <2>1. L = two \o <<Send>>
    BY <1>3, <1>6
  <2> HIDE DEF one
  <2>2. two \in Seq(Ops) /\ Len(two) = 2 /\ two[1] = p /\ two[2] = q
    <3>1. one \in Seq(Ops) /\ q \in Ops
      BY <1>4, <1>5
    <3>2. two \in Seq(Ops) /\ Len(two) = Len(one) + 1
      BY <3>1, JoinOne
    <3>3. two[Len(one) + 1] = q
      BY <3>1, JoinOne
    <3>4. two[1] = one[1]
      BY <1>5, <3>1, JoinOne
    <3> QED
      BY <1>5, <3>2, <3>3, <3>4
  <2> HIDE DEF two
  <2>3. Len(L) = Len(two) + 1 /\ L[Len(two) + 1] = Send /\ \A i \in 1..Len(two) : L[i] = two[i]
    <3>1. two \in Seq(Ops) /\ Send \in Ops
      BY <1>4, <2>1, <2>2
    <3>2. /\ Len(two \o <<Send>>) = Len(two) + 1
          /\ \A i \in 1..Len(two) : (two \o <<Send>>)[i] = two[i]
          /\ (two \o <<Send>>)[Len(two) + 1] = Send
      BY <3>1, JoinOne
    <3> QED
      BY <2>1, <3>2
  <2>4. Len(L) = 3 /\ L[1] = p /\ L[2] = q /\ L[3] = Send
    BY <2>2, <2>3
  <2>5. (IF s THEN 3 ELSE 2) = 3
    BY <1>6
  <2> QED
    BY <2>4, <2>5 DEF p, q
<1>7. CASE ~s
  <2>1. L = one \o <<Send>>
    <3>1. one \o <<>> = one
      BY <1>5, ConcatEmptySeq
    <3> QED
      BY <1>3, <1>7, <3>1
  <2> HIDE DEF one
  <2>2. Len(L) = Len(one) + 1 /\ L[Len(one) + 1] = Send /\ \A i \in 1..Len(one) : L[i] = one[i]
    <3>1. one \in Seq(Ops) /\ Send \in Ops
      BY <1>4, <1>5, <2>1
    <3>2. /\ Len(one \o <<Send>>) = Len(one) + 1
          /\ \A i \in 1..Len(one) : (one \o <<Send>>)[i] = one[i]
          /\ (one \o <<Send>>)[Len(one) + 1] = Send
      BY <3>1, JoinOne
    <3> QED
      BY <2>1, <3>2
  <2>3. Len(L) = 2 /\ L[1] = p /\ L[2] = Send
    BY <1>5, <2>2
  <2>4. (IF s THEN 3 ELSE 2) = 2
    BY <1>7
  <2> QED
    BY <1>7, <2>3, <2>4 DEF p
<1> QED
  BY <1>6, <1>7

LEMMA KeyPair ==
  ASSUME NEW k \in AnyKey, NEW s \in BOOLEAN
  PROVE  PressPair(KeyDown(k, s), KeyUp(k, s))
<1> DEFINE a == KeyDown(k, s)
           b == KeyUp(k, s)
           n == IF s THEN 3 ELSE 2
<1>1. /\ Len(a) = n /\ a[1] = Op("add", k) /\ a[n] = Send
      /\ s => a[2] = Op("add", LEFT_SHIFT)
  BY KeyList DEF KeyDown
<1>2. /\ Len(b) = n /\ b[1] = Op("remove", k) /\ b[n] = Send
      /\ s => b[2] = Op("remove", LEFT_SHIFT)
  BY KeyList DEF KeyUp
<1> HIDE DEF a, b
<1>3. \A o, x : Op(o, x).op = o /\ Op(o, x).key = x
  BY DEF Op
<1>4. PressPair(a, b)
  BY <1>1, <1>2, <1>3 DEF PressPair
<1> QED
  BY <1>4 DEF a, b

LEMMA CombPair ==
  ASSUME NEW ks \in Combinations
  PROVE  PressPair(Comb("add", ks), Comb("remove", ks))
<1>1. CASE ks = <<>>
  BY <1>1 DEF Comb, PressPair
<1>2. CASE ks # <<>>
  <2> DEFINE a == Comb("add", ks)
             b == Comb("remove", ks)
  <2>1. ASSUME NEW o \in {"add", "remove"}
        PROVE  /\ Len(ks) \in Nat /\ Len(Comb(o, ks)) = Len(ks) + 1
               /\ Comb(o, ks)[Len(ks) + 1] = Send
               /\ \A i \in 1..Len(ks) : Comb(o, ks)[i] = Op(o, ks[i])
    <3>1. /\ ks \in Seq(AnyKey)
          /\ EachKey(o, ks) \in Seq(Ops) /\ Len(EachKey(o, ks)) = Len(ks)
          /\ \A i \in 1..Len(ks) : EachKey(o, ks)[i] = Op(o, ks[i])
      BY EachKeyTyped
    <3>2. Comb(o, ks) = Append(EachKey(o, ks), Send) /\ Send \in Ops
      BY <1>2, <3>1, OpsTyped, AppendIsConcat DEF Comb
    <3> QED
      BY <3>1, <3>2, AppendProperties
  <2> HIDE DEF a, b
  <2>2. /\ Len(ks) \in Nat /\ Len(a) = Len(ks) + 1 /\ a[Len(ks) + 1] = Send
        /\ \A i \in 1..Len(ks) : a[i] = Op("add", ks[i])
    BY <2>1 DEF a
  <2>3. /\ Len(b) = Len(ks) + 1 /\ b[Len(ks) + 1] = Send
        /\ \A i \in 1..Len(ks) : b[i] = Op("remove", ks[i])
    BY <2>1 DEF b
  <2>4. \A o, x : Op(o, x).op = o /\ Op(o, x).key = x
    BY DEF Op
  <2>5. \A i \in 1..Len(ks) + 1 : i = Len(ks) + 1 \/ i \in 1..Len(ks)
    BY <2>2
  <2>6. \A i \in 1..Len(ks) : i \in 1..Len(b) /\ b[i].op = "remove" /\ b[i].key = a[i].key
    BY <2>2, <2>3, <2>4
  <2>7. PressPair(a, b)
    BY <2>2, <2>3, <2>4, <2>5, <2>6 DEF PressPair
  <2> QED
    BY <2>7 DEF a, b
<1> QED
  BY <1>1, <1>2

LEMMA BeginPair ==
  ASSUME TypeOK, NEW c, NEW a \in Seq(Ops), NEW b \in Seq(Ops), PressPair(a, b),
         Followed(a \o b), Begin(c, a \o b)
  PROVE  PressInv'
<1>1. todo' = a \o b /\ command' = [cmd |-> c, keys |-> Named(a \o b)]
  BY DEF Begin
<1>2. \A k \in command'.keys : Due(k)'
  BY <1>1, PairIsDue
<1>3. PressesAlone'
  BY <1>1 DEF PressesAlone, Followed
<1> QED
  BY <1>2, <1>3 DEF PressInv

LEMMA BeginOther ==
  ASSUME NEW c, c \notin PressCommands, NEW ops, Followed(ops), Begin(c, ops)
  PROVE  PressInv'
<1>1. todo' = ops /\ command' = [cmd |-> c, keys |-> Named(ops)]
  BY DEF Begin
<1> QED
  BY <1>1 DEF PressInv, PressesAlone, Followed

LEMMA CommandKeepsPress ==
  ASSUME TypeOK, Command
  PROVE  PressInv'
<1>1. CASE KB_DOWN
  BY <1>1, KeyDownFollowed, BeginOther DEF KB_DOWN, PressCommands
<1>2. CASE KB_UP
  BY <1>2, KeyUpFollowed, BeginOther DEF KB_UP, PressCommands
<1>3. CASE KB_PRESS
  <2>1. PICK k \in AnyKey, s \in BOOLEAN : Begin("KB_PRESS", KeyDown(k, s) \o KeyUp(k, s))
    BY <1>3 DEF KB_PRESS
  <2>2. /\ KeyDown(k, s) \in Seq(Ops) /\ KeyUp(k, s) \in Seq(Ops)
        /\ Followed(KeyDown(k, s) \o KeyUp(k, s))
    BY KeyDownTyped, KeyUpTyped, KeyDownFollowed, KeyUpFollowed, FollowedConcat
  <2> QED
    BY <2>1, <2>2, KeyPair, BeginPair
<1>4. CASE KB_UP_ALL
  <2>1. Followed(<<Op("releaseAll", RESERVED)>>)
    BY DEF Followed, Op
  <2> QED
    BY <1>4, <2>1, BeginOther DEF KB_UP_ALL, PressCommands
<1>5. CASE KB_COMB_DOWN
  BY <1>5, CombFollowed, BeginOther DEF KB_COMB_DOWN, PressCommands
<1>6. CASE KB_COMB_UP
  BY <1>6, CombFollowed, BeginOther DEF KB_COMB_UP, PressCommands
<1>7. CASE KB_COMB_PRESS
  <2>1. PICK ks \in Combinations :
          Begin("KB_COMB_PRESS", Comb("add", ks) \o Comb("remove", ks))
    BY <1>7 DEF KB_COMB_PRESS
  <2>2. /\ Comb("add", ks) \in Seq(Ops) /\ Comb("remove", ks) \in Seq(Ops)
        /\ Followed(Comb("add", ks)) /\ Followed(Comb("remove", ks))
    BY CombTyped, CombFollowed
  <2>3. Followed(Comb("add", ks) \o Comb("remove", ks))
    BY <2>2, FollowedConcat
  <2> QED
    BY <2>1, <2>2, <2>3, CombPair, BeginPair
<1>8. CASE KB_SET_LOCK
  <2>1. PICK k \in LockKeys :
          Begin("KB_SET_LOCK", <<Op("press", k), Op("release", k)>>)
    BY <1>8 DEF KB_SET_LOCK
  <2> DEFINE ops == <<Op("press", k), Op("release", k)>>
  <2>2. todo' = ops /\ command'.keys = Named(ops)
    BY <2>1 DEF Begin
  <2>3. /\ Len(ops) = 2 /\ ops[1].op = "press" /\ ops[2].op = "release"
        /\ ops[1].key = k /\ ops[2].key = k
    BY DEF Op
  <2>4. k # RESERVED
    BY KeyAssumption
  <2> HIDE DEF ops
  <2>5. Named(ops) = {k}
    BY <2>3, <2>4 DEF Named
  <2>6. Due(k)'
    BY <2>2, <2>3 DEF Due, Takes, Gives
  <2>7. PressesAlone'
    BY <2>2, <2>3, <2>5 DEF PressesAlone
  <2> QED
    BY <2>2, <2>5, <2>6, <2>7 DEF PressInv
<1> QED
  BY <1>1, <1>2, <1>3, <1>4, <1>5, <1>6, <1>7, <1>8 DEF Command

LEMMA BootKeepsPress ==
  ASSUME NEW t, t = <<Send>>
  PROVE  /\ todo = t /\ command = Booted => PressInv
         /\ todo' = t /\ command' = Booted => PressInv'
<1>1. Booted.cmd \notin PressCommands
  BY DEF Booted, PressCommands
<1>2. Len(t) = 1 /\ t[1].op = "send"
  BY DEF Send, Op
<1> QED
  BY <1>1, <1>2 DEF PressInv, PressesAlone

LEMMA NextKeepsPress == IInv /\ PressInv /\ [Next]_vars => PressInv'
<1> SUFFICES ASSUME IInv, PressInv, [Next]_vars PROVE PressInv'
  OBVIOUS
<1>1. CASE Command
  BY <1>1, CommandKeepsPress DEF IInv
<1>2. CASE Operation
  BY <1>2, OperationKeepsPress
<1>3. CASE UNCHANGED <<modifiers, keycodes, todo, command>>
  <2>1. Held' = Held
    BY <1>3 DEF Held
  <2>2. PressesAlone'
    BY <1>3 DEF PressInv, PressesAlone
  <2>3. \A k : (Due(k)' <=> Due(k)) /\ (Gone(k)' <=> Gone(k))
    BY <1>3, <2>1 DEF Due, Gone, Takes, Gives
  <2> QED
    BY <1>3, <2>2, <2>3 DEF PressInv
<1>4. CASE Reset
  BY <1>4, BootKeepsPress DEF Reset
<1> QED
  BY <1>1, <1>2, <1>3, <1>4 DEF Next, HostTakes, BusReset, Configure, vars

(* A command that presses leaves none of the keys it names in the report,   *)
(* whatever it began with and however many slots there are.                 *)
THEOREM PressReleases == Spec => []PressLeavesNothing
<1>1. PressInv => PressLeavesNothing
  <2> SUFFICES ASSUME PressInv, todo = <<>>, command.cmd \in PressCommands
               PROVE  Held \cap command.keys = {}
    BY DEF PressLeavesNothing, PressCommands
  <2>1. Len(todo) = 0
    OBVIOUS
  <2>2. \A k \in command.keys : Gone(k)
    BY <2>1 DEF PressInv, Due
  <2> QED
    BY <2>2 DEF Gone
<1>2. Init => PressInv
  BY BootKeepsPress DEF Init
<1>3. IInv /\ PressInv /\ [Next]_vars => PressInv'
  BY NextKeepsPress
<1>4. Spec => []IInv
  BY InitIInv, NextIInv, PTL DEF Spec
<1> QED
  BY <1>1, <1>2, <1>3, <1>4, PTL DEF Spec

-----------------------------------------------------------------------------
(* The report implements HeldKeys.                                          *)

(* The scans return the first slot there is. *)
LEMMA FirstIsIn ==
  ASSUME NEW S, S \subseteq Nat, S # {}
  PROVE  First(S) \in S
<1>1. \E m \in S : \A j \in S : m <= j
  BY LeastIn
<1> QED
  BY <1>1 DEF First

LEMMA SlotsAreNat == Slots \subseteq Nat
BY KeyAssumption DEF Slots

(* A free slot is room for a key: the keys held take the other slots. *)
LEMMA FreeIsRoom ==
  ASSUME ReportOK, Free # {}
  PROVE  Cardinality(Held \cap Keys) < NumSlots
<1>1. PICK f \in Slots : keycodes[f] = RESERVED
  BY DEF Free
<1> DEFINE S == Slots \ {f}
           T == Held \cap Keys
           slot == [k \in T |-> CHOOSE i \in S : keycodes[i] = k]
<1>2. NumSlots \in Nat \ {0} /\ Keys \cap Modifiers = {} /\ RESERVED \notin Keys
  BY KeyAssumption
<1>3. IsFiniteSet(S) /\ Cardinality(S) = NumSlots - 1
  <2>1. IsFiniteSet(Slots) /\ Cardinality(Slots) = NumSlots
    BY <1>2, FS_Interval DEF Slots
  <2> QED
    BY <1>1, <2>1, FS_RemoveElement
<1>4. \A k \in T : \E i \in S : keycodes[i] = k
  BY <1>1, <1>2 DEF Held, ReportOK
<1>5. \A k \in T : slot[k] \in S /\ keycodes[slot[k]] = k
  BY <1>4
<1>6. slot \in Injection(T, S)
  <2>1. slot \in [T -> S]
    BY <1>5
  <2>2. \A k, l \in T : slot[k] = slot[l] => k = l
    BY <1>5
  <2> HIDE DEF slot
  <2> QED
    BY <2>1, <2>2 DEF Injection, IsInjective
<1> HIDE DEF S, T, slot
<1>7. Cardinality(T) <= Cardinality(S) /\ Cardinality(T) \in Nat
  BY <1>3, <1>6, FS_Injection, FS_CardinalityType
<1> QED
  BY <1>2, <1>3, <1>7 DEF T

(* Adding a key in slots presses it, or does nothing. *)
LEMMA AddPresses ==
  ASSUME ReportOK, NEW k \in AnyKey, Add(k)
  PROVE  Abstract!Press(k) \/ UNCHANGED Held
<1>1. CASE k \in Modifiers
  <2>1. Held' = Held \cup {k}
    BY <1>1 DEF Add, Held
  <2> QED
    BY <1>1, <2>1 DEF Abstract!Press, Abstract!Fits
<1>2. CASE k \notin Modifiers /\ (Shown(k) \/ Free = {})
  BY <1>2 DEF Add, Held
<1>3. CASE k \notin Modifiers /\ ~Shown(k) /\ Free # {}
  <2>1. keycodes' = [keycodes EXCEPT ![First(Free)] = k] /\ UNCHANGED modifiers
    BY <1>3 DEF Add
  <2>2. First(Free) \in Slots /\ keycodes[First(Free)] = RESERVED
    <3>1. First(Free) \in Free
      BY <1>3, SlotsAreNat, FirstIsIn DEF Free
    <3> QED
      BY <3>1 DEF Free
  <2>3. \A i \in Slots : keycodes'[i] = IF i = First(Free) THEN k ELSE keycodes[i]
    BY <2>1 DEF ReportOK
  <2>4. k # RESERVED
    BY KeyAssumption DEF AnyKey
  <2>5. Held' = Held \cup {k}
    BY <2>1, <2>2, <2>3, <2>4 DEF Held
  <2>6. Cardinality(Held \cap Keys) < NumSlots
    BY <1>3, FreeIsRoom
  <2>7. Abstract!Fits(k)
    BY <2>6 DEF Abstract!Fits, Abstract!Cardinality, Cardinality
  <2> QED
    BY <2>5, <2>7 DEF Abstract!Press
<1> QED
  BY <1>1, <1>2, <1>3

(* Removing a key from the first slot that holds it releases it, and no     *)
(* other: the key has no second slot.                                       *)
LEMMA RemoveReleases ==
  ASSUME ReportOK, NEW k \in AnyKey, Remove(k)
  PROVE  Abstract!Release(k)
<1>1. Held' \subseteq Held \ {k}
  BY RemoveHolds
<1>2. Held \ {k} \subseteq Held'
  <2>1. CASE k \in Modifiers
    BY <2>1 DEF Remove, Held
  <2>2. CASE k \notin Modifiers /\ ~Shown(k)
    BY <2>2 DEF Remove, Held
  <2>3. CASE k \notin Modifiers /\ Shown(k)
    <3> DEFINE n == First({i \in Slots : keycodes[i] = k})
    <3>1. keycodes' = [keycodes EXCEPT ![n] = RESERVED] /\ UNCHANGED modifiers
      BY <2>3 DEF Remove
    <3>2. n \in Slots /\ keycodes[n] = k
      <4> DEFINE S == {i \in Slots : keycodes[i] = k}
      <4>1. S \subseteq Nat /\ S # {}
        BY <2>3, SlotsAreNat DEF Shown
      <4>2. n \in S
        <5> HIDE DEF S
        <5> QED
          BY <4>1, FirstIsIn DEF S
      <4> QED
        BY <4>2
    <3> HIDE DEF n
    <3>3. \A i \in Slots : keycodes[i] # k => keycodes'[i] = keycodes[i]
      BY <3>1, <3>2 DEF ReportOK
    <3> QED
      BY <3>1, <3>3 DEF Held
  <2> QED
    BY <2>1, <2>2, <2>3
<1> QED
  BY <1>1, <1>2 DEF Abstract!Release

LEMMA RemoveAllReleases ==
  ASSUME RemoveAll
  PROVE  Abstract!ReleaseAll
<1>1. Held' = {}
  BY DEF RemoveAll, Held
<1> QED
  BY <1>1 DEF Abstract!ReleaseAll

LEMMA StepImplements ==
  ASSUME IInv, [Next]_vars
  PROVE  [Abstract!Next]_Held
<1>1. ReportOK
  BY DEF IInv, TypeOK, ReportOK
<1>2. ASSUME UNCHANGED Report PROVE UNCHANGED Held
  BY <1>2, HeldOfReport
<1>3. CASE Operation
  <2>1. todo # <<>> /\ Head(todo) \in Ops
    BY <1>3 DEF IInv, TypeOK, Operation, DoAdd, DoRemove, DoSend, DoPress, DoRelease,
                DoReleaseAll, Do
  <2>2. Head(todo).op \in {"add", "remove", "press", "release"} => Head(todo).key \in AnyKey
    BY <2>1 DEF Ops
  <2> DEFINE k == Head(todo).key
  <2>3. CASE DoAdd \/ DoPress
    <3>1. k \in AnyKey /\ Add(k)
      BY <2>2, <2>3 DEF DoAdd, DoPress, Do
    <3> QED
      BY <1>1, <3>1, AddPresses DEF Abstract!Next, AnyKey
  <2>4. CASE DoRemove \/ DoRelease
    <3>1. k \in AnyKey /\ Remove(k)
      BY <2>2, <2>4 DEF DoRemove, DoRelease, Do
    <3> QED
      BY <1>1, <3>1, RemoveReleases DEF Abstract!Next, AnyKey
  <2>5. CASE DoReleaseAll
    BY <2>5, RemoveAllReleases DEF DoReleaseAll, Do, Abstract!Next
  <2>6. CASE DoSend
    BY <1>2, <2>6 DEF DoSend, Do, SendReport, Report
  <2> QED
    BY <1>3, <2>3, <2>4, <2>5, <2>6 DEF Operation
<1>4. CASE Reset
  BY <1>4, RemoveAllReleases DEF Reset, Abstract!Next
<1>5. CASE ~Operation /\ ~Reset
  <2>1. UNCHANGED Report
    BY <1>5 DEF Next, Command, KB_DOWN, KB_UP, KB_PRESS, KB_UP_ALL, KB_COMB_DOWN, KB_COMB_UP,
                KB_COMB_PRESS, KB_SET_LOCK, Begin, HostTakes, BusReset, Configure, vars, Report
  <2> QED
    BY <1>2, <2>1
<1> QED
  BY <1>3, <1>4, <1>5

LEMMA InitImplements == Init => Abstract!Init
BY DEF Init, Abstract!Init, Held

(* The slots and the modifier byte behave as a set of held keys with room   *)
(* for NumSlots of them: a key finds a slot exactly when fewer are held,    *)
(* and is released without touching another.                                *)
THEOREM ReportImplementsHeldKeys == Spec => ImplementsHeldKeys
<1>1. Spec => [][Abstract!Next]_Held
  BY Invariance, StepImplements, PTL DEF Spec
<1> QED
  BY <1>1, InitImplements, PTL DEF Spec, ImplementsHeldKeys, Abstract!Spec
==============================================================================
