-------------------------- MODULE EepromStoreProofs --------------------------
(***************************************************************************)
(* Proofs about EepromStore, for any layout in which the settings and the  *)
(* passwords keep clear of every other record, any lengths and any values. *)
(***************************************************************************)
EXTENDS EepromStore, SequenceTheorems, TLAPS

USE DEF registers, packet

Addresses == 0..(Size - 1)
Ops == [op : {"read", "write"}, a : Addresses, b : Nat]

-----------------------------------------------------------------------------
(* Records and values.                                                      *)

LEMMA TimesNat ==
  ASSUME NEW i \in Nat, NEW j \in Nat
  PROVE  i * j \in Nat
OBVIOUS

LEMMA PlaceFits ==
  ASSUME NEW r \in Places
  PROVE  /\ Size \in Nat /\ Tag(r) \in Nat /\ LenOf(r) \in Nat
         /\ Tag(r) + 1 + LenOf(r) < Size
<1>1. Tag(r) \in Nat
  <2>1. CASE r \in Slots
    <3>1. r - 1 \in Nat /\ SlotBase \in Nat /\ SlotStride \in Nat
      BY <2>1, StoreAssumption DEF Slots
    <3>2. (r - 1) * SlotStride \in Nat
      BY <3>1, TimesNat
    <3> QED
      BY <2>1, <3>1, <3>2 DEF Tag
  <2>2. CASE r \notin Slots
    BY <2>2, StoreAssumption DEF Tag, Records, Places
  <2> QED
    BY <2>1, <2>2
<1>2. LenOf(r) \in Nat
  BY StoreAssumption DEF LenOf, Records, Places, Indexes
<1>3. Size \in Nat /\ Extent(r) \subseteq 0..(Size - 1)
  BY StoreAssumption
<1>4. Tag(r) + 1 + LenOf(r) \in Extent(r)
  BY <1>1, <1>2 DEF Extent
<1> QED
  BY <1>1, <1>2, <1>3, <1>4

LEMMA RecordFits ==
  ASSUME NEW r \in Records
  PROVE  /\ Size \in Nat /\ Tag(r) \in Nat /\ LenOf(r) \in Nat
         /\ Tag(r) + 1 + LenOf(r) < Size
BY PlaceFits DEF Places

LEMMA SizePositive == Size \in Nat \ {0}
<1>1. WPwd \in Records
  BY DEF Records, Fixed
<1> QED
  BY <1>1, RecordFits

LEMMA PadTyped ==
  ASSUME NEW v \in Seq(Nat), NEW n \in Nat
  PROVE  /\ Pad(v, n) \in Seq(Nat) /\ Len(Pad(v, n)) = n
         /\ \A i \in 1..n : Pad(v, n)[i] = IF i <= Len(v) THEN v[i] ELSE 0
BY DEF Pad

(* What strcmp sees of a packet field is the value in it.                   *)
LEMMA CStringOfPad ==
  ASSUME NEW v \in Seq(Nat \ {0}), NEW n \in Nat, Len(v) <= n
  PROVE  CString(Pad(v, n)) = v
<1> DEFINE bytes == Pad(v, n)
           Ends(k) == /\ \A i \in 1..k : bytes[i] # 0
                      /\ k < Len(bytes) => bytes[k + 1] = 0
           c == CHOOSE k \in 0..Len(bytes) : Ends(k)
<1>1. /\ Len(v) \in Nat /\ \A i \in 1..Len(v) : v[i] \in Nat \ {0}
      /\ v \in Seq(Nat)
  BY LenProperties
<1>2. /\ bytes \in Seq(Nat) /\ Len(bytes) = n
      /\ \A i \in 1..n : bytes[i] = IF i <= Len(v) THEN v[i] ELSE 0
  BY <1>1, PadTyped
<1> HIDE DEF bytes
<1>3. Len(v) \in 0..Len(bytes) /\ Ends(Len(v))
  BY <1>1, <1>2
<1>4. c \in 0..Len(bytes) /\ Ends(c)
  BY <1>3
<1>5. c = Len(v)
  <2>1. ~(c < Len(v))
    BY <1>1, <1>2, <1>4
  <2>2. ~(c > Len(v))
    BY <1>1, <1>2, <1>3, <1>4
  <2> QED
    BY <1>1, <1>2, <1>4, <2>1, <2>2
<1>6. CString(bytes) = SubSeq(bytes, 1, c)
  BY DEF CString
<1> HIDE DEF c
<1>7. /\ SubSeq(bytes, 1, Len(v)) \in Seq(Nat)
      /\ Len(SubSeq(bytes, 1, Len(v))) = Len(v)
      /\ \A i \in 1..Len(v) : SubSeq(bytes, 1, Len(v))[i] = v[i]
  BY <1>1, <1>2
<1>8. SubSeq(bytes, 1, Len(v)) = v
  BY <1>1, <1>7
<1> QED
  BY <1>5, <1>6, <1>8 DEF bytes

-----------------------------------------------------------------------------
(* The accesses of a command, as a set.                                     *)

Elems(q) == {q[i] : i \in 1..Len(q)}

LEMMA ElemsConcat ==
  ASSUME NEW S, NEW s \in Seq(S), NEW t \in Seq(S)
  PROVE  s \o t \in Seq(S) /\ Elems(s \o t) = Elems(s) \cup Elems(t)
<1>1. /\ Len(s) \in Nat /\ Len(t) \in Nat
      /\ s \o t \in Seq(S)
      /\ Len(s \o t) = Len(s) + Len(t)
      /\ \A i \in 1..(Len(s) + Len(t)) : (s \o t)[i] = IF i <= Len(s) THEN s[i] ELSE t[i - Len(s)]
  BY ConcatProperties, LenProperties
<1>2. ASSUME NEW i \in 1..Len(s) PROVE s[i] \in Elems(s \o t)
  BY <1>1 DEF Elems
<1>3. ASSUME NEW i \in 1..Len(t) PROVE t[i] \in Elems(s \o t)
  <2>1. Len(s) + i \in 1..Len(s \o t) /\ (s \o t)[Len(s) + i] = t[i]
    BY <1>1
  <2> QED
    BY <2>1 DEF Elems
<1>4. ASSUME NEW i \in 1..Len(s \o t) PROVE (s \o t)[i] \in Elems(s) \cup Elems(t)
  <2>1. CASE i <= Len(s)
    BY <1>1, <2>1 DEF Elems
  <2>2. CASE ~(i <= Len(s))
    <3>1. i - Len(s) \in 1..Len(t) /\ (s \o t)[i] = t[i - Len(s)]
      BY <1>1, <2>2
    <3> QED
      BY <3>1 DEF Elems
  <2> QED
    BY <2>1, <2>2
<1>5. Elems(s) \subseteq Elems(s \o t) /\ Elems(t) \subseteq Elems(s \o t)
  BY <1>2, <1>3 DEF Elems
<1>6. Elems(s \o t) \subseteq Elems(s) \cup Elems(t)
  BY <1>4 DEF Elems
<1> QED
  BY <1>1, <1>5, <1>6

LEMMA ElemsTail ==
  ASSUME NEW S, NEW q \in Seq(S), q # <<>>
  PROVE  /\ Head(q) \in S /\ Tail(q) \in Seq(S)
         /\ Elems(q) = {Head(q)} \cup Elems(Tail(q))
<1>1. /\ Len(q) \in Nat \ {0} /\ Head(q) = q[1] /\ Head(q) \in S
      /\ Tail(q) \in Seq(S) /\ Len(Tail(q)) = Len(q) - 1
      /\ \A i \in 1..Len(Tail(q)) : Tail(q)[i] = q[i + 1]
  BY HeadTailProperties, LenProperties, EmptySeq
<1>2. Elems(Tail(q)) \subseteq Elems(q)
  BY <1>1 DEF Elems
<1>3. ASSUME NEW i \in 1..Len(q) PROVE q[i] \in {Head(q)} \cup Elems(Tail(q))
  <2>1. CASE i # 1
    <3>1. i - 1 \in 1..Len(Tail(q)) /\ Tail(q)[i - 1] = q[i]
      BY <1>1, <2>1
    <3> QED
      BY <3>1 DEF Elems
  <2> QED
    BY <1>1, <2>1
<1>4. Elems(q) \subseteq {Head(q)} \cup Elems(Tail(q)) /\ Head(q) \in Elems(q)
  BY <1>1, <1>3 DEF Elems
<1> QED
  BY <1>1, <1>2, <1>4

LEMMA ElemsEmpty == Elems(<<>>) = {}
BY DEF Elems

LEMMA ElemsTyped ==
  ASSUME NEW S, NEW q \in Seq(S)
  PROVE  Elems(q) \subseteq S
BY LenProperties DEF Elems

-----------------------------------------------------------------------------
(* The lists of accesses the commands start with.                           *)

(* Byte i of a valid record with the value v. *)
Image(r, v, i) ==
  IF i = 1 THEN FLAG ELSE IF i = 2 THEN LenOf(r) ELSE Pad(v, LenOf(r))[i - 2]

LEMMA WriteTyped ==
  ASSUME NEW a \in Addresses, NEW b \in Nat
  PROVE  Wr(a, b) \in Ops /\ Rd(a) \in Ops
BY DEF Wr, Rd, Ops

LEMMA PlaceImage ==
  ASSUME NEW r \in Places, NEW v \in Seq(Nat), NEW i \in 1..(LenOf(r) + 2)
  PROVE  Image(r, v, i) \in Nat /\ Tag(r) + i - 1 \in Addresses /\ Tag(r) + i - 1 \in Extent(r)
<1>1. /\ Size \in Nat /\ Tag(r) \in Nat /\ LenOf(r) \in Nat
      /\ Tag(r) + 1 + LenOf(r) < Size
  BY PlaceFits
<1>2. Tag(r) + i - 1 \in Addresses /\ Tag(r) + i - 1 \in Extent(r)
  BY <1>1 DEF Addresses, Extent
<1>3. FLAG \in Nat
  BY StoreAssumption
<1>4. CASE i > 2
  <2>1. i - 2 \in 1..LenOf(r)
    BY <1>1, <1>4
  <2>2. Pad(v, LenOf(r)) \in Seq(Nat) /\ Len(Pad(v, LenOf(r))) = LenOf(r)
    BY <1>1, PadTyped
  <2>3. Pad(v, LenOf(r))[i - 2] \in Nat
    BY <2>1, <2>2, LenProperties
  <2> QED
    BY <1>1, <1>2, <1>4, <2>3 DEF Image
<1> QED
  BY <1>1, <1>2, <1>3, <1>4 DEF Image

LEMMA WritePlaceOps ==
  ASSUME NEW r \in Places, NEW v \in Seq(Nat)
  PROVE  /\ WriteRecord(r, v) \in Seq(Ops) /\ Len(WriteRecord(r, v)) = LenOf(r) + 2
         /\ Elems(WriteRecord(r, v)) =
              {Wr(Tag(r) + i - 1, Image(r, v, i)) : i \in 1..(LenOf(r) + 2)}
<1> DEFINE n == LenOf(r)
           s == <<Wr(Tag(r), FLAG), Wr(Tag(r) + 1, n)>>
           t == [i \in 1..n |-> Wr(Tag(r) + 1 + i, Pad(v, n)[i])]
           W(i) == Wr(Tag(r) + i - 1, Image(r, v, i))
<1>1. n \in Nat /\ Tag(r) \in Nat
  BY PlaceFits
<1>2. \A i \in 1..(n + 2) : W(i) \in Ops
  BY PlaceImage, WriteTyped
<1>3. s[1] = W(1) /\ s[2] = W(2) /\ s = <<W(1), W(2)>>
  BY <1>1 DEF Image
<1>4. s \in Seq(Ops) /\ Len(s) = 2 /\ Elems(s) = {W(1), W(2)}
  <2>1. W(1) \in Ops /\ W(2) \in Ops
    BY <1>1, <1>2
  <2>2. s \in Seq(Ops) /\ Len(s) = 2
    BY <1>3, <2>1
  <2> QED
    BY <1>3, <2>2 DEF Elems
<1>5. \A i \in 1..n : Wr(Tag(r) + 1 + i, Pad(v, n)[i]) = W(i + 2)
  BY <1>1 DEF Image
<1>6. t \in Seq(Ops) /\ Len(t) = n /\ Elems(t) = {W(i) : i \in 3..(n + 2)}
  <2>1. t = [i \in 1..n |-> W(i + 2)]
    BY <1>5
  <2>2. \A i \in 1..n : i + 2 \in 1..(n + 2) /\ i + 2 \in 3..(n + 2)
    BY <1>1
  <2>3. \A i \in 3..(n + 2) : i - 2 \in 1..n /\ (i - 2) + 2 = i
    BY <1>1
  <2> HIDE DEF n, W, t
  <2>4. \A i \in 1..n : W(i + 2) \in Ops
    BY <1>2, <2>2
  <2>5. t \in Seq(Ops) /\ Len(t) = n
    BY <1>1, <2>1, <2>4
  <2>6. \A i \in 1..n : t[i] = W(i + 2)
    BY <2>1
  <2>7. Elems(t) \subseteq {W(i) : i \in 3..(n + 2)}
    BY <2>2, <2>5, <2>6 DEF Elems
  <2>8. ASSUME NEW i \in 3..(n + 2) PROVE W(i) \in Elems(t)
    <3>1. i - 2 \in 1..n /\ t[i - 2] = W(i)
      BY <2>3, <2>6
    <3> QED
      BY <2>5, <3>1 DEF Elems
  <2> QED
    BY <2>5, <2>7, <2>8
<1>7. WriteRecord(r, v) = s \o t
  BY DEF WriteRecord
<1>8. 1..(n + 2) = {1, 2} \cup 3..(n + 2)
  BY <1>1
<1>9. {W(i) : i \in 1..(n + 2)} = {W(1), W(2)} \cup {W(i) : i \in 3..(n + 2)}
  <2> HIDE DEF n, W
  <2> QED
    BY <1>8
<1>10. s \o t \in Seq(Ops) /\ Elems(s \o t) = Elems(s) \cup Elems(t)
       /\ Len(s \o t) = Len(s) + Len(t)
  <2> HIDE DEF s, t
  <2> QED
    BY <1>4, <1>6, ElemsConcat, ConcatProperties
<1>11. Len(WriteRecord(r, v)) = n + 2
  <2> HIDE DEF s, t, n
  <2> QED
    BY <1>1, <1>4, <1>6, <1>7, <1>10
<1> QED
  BY <1>4, <1>6, <1>7, <1>9, <1>10, <1>11

LEMMA ImageTyped ==
  ASSUME NEW r \in Records, NEW v \in Seq(Nat), NEW i \in 1..(LenOf(r) + 2)
  PROVE  Image(r, v, i) \in Nat /\ Tag(r) + i - 1 \in Addresses /\ Tag(r) + i - 1 \in Extent(r)
BY PlaceImage DEF Places

LEMMA WriteRecordOps ==
  ASSUME NEW r \in Records, NEW v \in Seq(Nat)
  PROVE  /\ WriteRecord(r, v) \in Seq(Ops) /\ Len(WriteRecord(r, v)) = LenOf(r) + 2
         /\ Elems(WriteRecord(r, v)) =
              {Wr(Tag(r) + i - 1, Image(r, v, i)) : i \in 1..(LenOf(r) + 2)}
BY WritePlaceOps DEF Places

LEMMA UntagOps ==
  ASSUME NEW r \in Records
  PROVE  /\ Untag(r) \in Seq(Ops)
         /\ Elems(Untag(r)) = {Wr(Tag(r), 0), Wr(Tag(r) + 1, 0)}
         /\ Tag(r) \in Extent(r) /\ Tag(r) + 1 \in Extent(r)
<1>1. /\ Size \in Nat /\ Tag(r) \in Nat /\ LenOf(r) \in Nat
      /\ Tag(r) + 1 + LenOf(r) < Size
  BY RecordFits
<1>2. Wr(Tag(r), 0) \in Ops /\ Wr(Tag(r) + 1, 0) \in Ops
  BY <1>1, WriteTyped DEF Addresses
<1>3. Untag(r) \in Seq(Ops) /\ Len(Untag(r)) = 2
  BY <1>2 DEF Untag
<1> QED
  BY <1>1, <1>3 DEF Untag, Elems, Extent

LEMMA UntagSlotsOps ==
  /\ UntagSlots \in Seq(Ops)
  /\ \A o \in Elems(UntagSlots) : o.op = "write" /\ \E s \in Slots : o.a \in Extent(s)
<1> DEFINE S(i) == (i + 1) \div 2
           A(i) == Tag(S(i)) + ((i + 1) % 2)
<1>1. NumSlots \in Nat
  BY StoreAssumption
<1>2. ASSUME NEW i \in 1..2 * NumSlots
      PROVE  S(i) \in Slots /\ A(i) \in Extent(S(i)) /\ A(i) \in Addresses
  <2>1. S(i) \in 1..NumSlots /\ (i + 1) % 2 \in {0, 1}
    BY <1>1
  <2>2. S(i) \in Slots /\ S(i) \in Records
    BY <2>1 DEF Slots, Records
  <2> HIDE DEF S
  <2>3. /\ Size \in Nat /\ Tag(S(i)) \in Nat /\ LenOf(S(i)) \in Nat
        /\ Tag(S(i)) + 1 + LenOf(S(i)) < Size
    BY <2>2, RecordFits
  <2> QED
    BY <2>1, <2>2, <2>3 DEF Extent, Addresses
<1>3. UntagSlots = [i \in 1..2 * NumSlots |-> Wr(A(i), 0)]
  BY DEF UntagSlots
<1> HIDE DEF S, A
<1>4. \A i \in 1..2 * NumSlots : Wr(A(i), 0) \in Ops
  BY <1>2, WriteTyped
<1>5. 2 * NumSlots \in Nat
  BY <1>1
<1>6. UntagSlots \in Seq(Ops) /\ Len(UntagSlots) = 2 * NumSlots
  BY <1>3, <1>4, <1>5
<1>7. \A i \in 1..2 * NumSlots : UntagSlots[i] = Wr(A(i), 0)
  BY <1>3
<1> QED
  BY <1>2, <1>6, <1>7 DEF Elems, Wr

LEMMA ElemsOfThree ==
  ASSUME NEW S, NEW s \in Seq(S), NEW t \in Seq(S), NEW u \in Seq(S)
  PROVE  /\ s \o t \o u \in Seq(S) /\ Len(s \o t \o u) = Len(s) + Len(t) + Len(u)
         /\ Elems(s \o t \o u) = Elems(s) \cup Elems(t) \cup Elems(u)
<1> DEFINE st == s \o t
<1>1. st \in Seq(S) /\ Len(st) = Len(s) + Len(t) /\ Elems(st) = Elems(s) \cup Elems(t)
  BY ElemsConcat, ConcatProperties
<1> HIDE DEF st
<1>2. st \o u \in Seq(S) /\ Elems(st \o u) = Elems(st) \cup Elems(u)
  BY <1>1, ElemsConcat
<1>3. Len(st \o u) = Len(st) + Len(u)
  BY <1>1, ConcatProperties
<1> QED
  BY <1>1, <1>2, <1>3 DEF st

(* INIT_LOCK and RESET_LOCK. *)
LEMMA InitLockOps ==
  ASSUME NEW w \in Seq(Nat), NEW p \in Seq(Nat),
         NEW ops, ops = LockRecords(w, p)
  PROVE  /\ ops \in Seq(Ops)
         /\ Len(ops) = LenOf(WPwd) + LenOf(RPwd) + 4 + Len(UntagSlots)
         /\ Elems(ops) = Elems(WriteRecord(WPwd, w)) \cup Elems(WriteRecord(RPwd, p))
                           \cup Elems(UntagSlots)
         /\ \A o \in Elems(ops) : o.op = "write"
<1>1. WPwd \in Records /\ RPwd \in Records
  BY DEF Records, Fixed
<1>2. /\ WriteRecord(WPwd, w) \in Seq(Ops) /\ WriteRecord(RPwd, p) \in Seq(Ops)
      /\ UntagSlots \in Seq(Ops)
  BY <1>1, WriteRecordOps, UntagSlotsOps
<1>3. /\ ops \in Seq(Ops)
      /\ Elems(ops) = Elems(WriteRecord(WPwd, w)) \cup Elems(WriteRecord(RPwd, p))
                        \cup Elems(UntagSlots)
      /\ Len(ops) = Len(WriteRecord(WPwd, w)) + Len(WriteRecord(RPwd, p)) + Len(UntagSlots)
  BY <1>2, ElemsOfThree DEF LockRecords
<1>5. Len(ops) = LenOf(WPwd) + LenOf(RPwd) + 4 + Len(UntagSlots)
  <2>1. /\ Len(WriteRecord(WPwd, w)) = LenOf(WPwd) + 2
        /\ Len(WriteRecord(RPwd, p)) = LenOf(RPwd) + 2
    BY <1>1, WriteRecordOps
  <2>2. LenOf(WPwd) \in Nat /\ LenOf(RPwd) \in Nat /\ Len(UntagSlots) \in Nat
    BY <1>1, <1>2, RecordFits
  <2> QED
    BY <1>3, <2>1, <2>2
<1>4. /\ \A o \in Elems(WriteRecord(WPwd, w)) : o.op = "write"
      /\ \A o \in Elems(WriteRecord(RPwd, p)) : o.op = "write"
  BY <1>1, WriteRecordOps DEF Wr
<1> QED
  BY <1>3, <1>4, <1>5, UntagSlotsOps

LEMMA ResetLockOps ==
  ASSUME NEW ops, ops = Untag(WPwd) \o Untag(RPwd) \o UntagSlots
  PROVE  /\ ops \in Seq(Ops)
         /\ Elems(ops) = Elems(Untag(WPwd)) \cup Elems(Untag(RPwd)) \cup Elems(UntagSlots)
         /\ \A o \in Elems(ops) : o.op = "write"
<1>1. WPwd \in Records /\ RPwd \in Records
  BY DEF Records, Fixed
<1>2. Untag(WPwd) \in Seq(Ops) /\ Untag(RPwd) \in Seq(Ops) /\ UntagSlots \in Seq(Ops)
  BY <1>1, UntagOps, UntagSlotsOps
<1>3. ops \in Seq(Ops)
      /\ Elems(ops) = Elems(Untag(WPwd)) \cup Elems(Untag(RPwd)) \cup Elems(UntagSlots)
  BY <1>2, ElemsOfThree
<1>4. /\ \A o \in Elems(Untag(WPwd)) : o.op = "write"
      /\ \A o \in Elems(Untag(RPwd)) : o.op = "write"
  BY <1>1, UntagOps DEF Wr
<1> QED
  BY <1>3, <1>4, UntagSlotsOps

(* The reads of byte i of a record. *)
ReadOp(r, i) == Rd(Tag(r) + i - 1)

LEMMA ReadTagOps ==
  ASSUME NEW r \in Places
  PROVE  /\ ReadTag(r) \in Seq(Ops) /\ Len(ReadTag(r)) = 2
         /\ \A i \in 1..2 : ReadTag(r)[i] = ReadOp(r, i)
         /\ \A o \in Elems(ReadTag(r)) : o.op = "read"
<1>1. /\ Size \in Nat /\ Tag(r) \in Nat /\ LenOf(r) \in Nat
      /\ Tag(r) + 1 + LenOf(r) < Size
  BY PlaceFits
<1>2. Rd(Tag(r)) \in Ops /\ Rd(Tag(r) + 1) \in Ops
  BY <1>1, WriteTyped DEF Addresses
<1>3. Tag(r) + 1 - 1 = Tag(r) /\ Tag(r) + 2 - 1 = Tag(r) + 1
  BY <1>1
<1>4. \A o \in Elems(ReadTag(r)) : o.op = "read"
  <2>1. Len(ReadTag(r)) = 2 /\ \A i \in 1..2 : ReadTag(r)[i].op = "read"
    BY DEF ReadTag, Rd
  <2> QED
    BY <2>1 DEF Elems
<1> QED
  BY <1>2, <1>3, <1>4 DEF ReadTag, ReadOp

LEMMA ReadValueOps ==
  ASSUME NEW r \in Places
  PROVE  /\ ReadValue(r) \in Seq(Ops) /\ Len(ReadValue(r)) = LenOf(r)
         /\ \A i \in 1..LenOf(r) : ReadValue(r)[i] = ReadOp(r, i + 2)
         /\ \A o \in Elems(ReadValue(r)) : o.op = "read"
<1>1. /\ Size \in Nat /\ Tag(r) \in Nat /\ LenOf(r) \in Nat
      /\ Tag(r) + 1 + LenOf(r) < Size
  BY PlaceFits
<1>2. \A i \in 1..LenOf(r) : Tag(r) + 1 + i \in Addresses /\ Tag(r) + 1 + i = Tag(r) + (i + 2) - 1
  BY <1>1 DEF Addresses
<1>3. \A i \in 1..LenOf(r) : Rd(Tag(r) + 1 + i) \in Ops
  BY <1>2, WriteTyped
<1>4. ReadValue(r) \in Seq(Ops) /\ Len(ReadValue(r)) = LenOf(r)
  BY <1>1, <1>3 DEF ReadValue
<1>5. \A o \in Elems(ReadValue(r)) : o.op = "read"
  <2>1. \A i \in 1..LenOf(r) : ReadValue(r)[i].op = "read"
    BY DEF ReadValue, Rd
  <2> QED
    BY <1>4, <2>1 DEF Elems
<1> QED
  BY <1>2, <1>4, <1>5 DEF ReadValue, ReadOp

-----------------------------------------------------------------------------
(* Types.  A command that changes records has read nothing and its accesses *)
(* are writes, so TagValid never finds a tag in it; a command that reads     *)
(* writes nothing.                                                           *)

Commands ==
  [op : {"set"}, rec : Settings, val : Values]
    \cup [op : {"restore", "info"}, rec : Settings]
    \cup [op : {"initLock"}, wpwd : Values, rpwd : Values]
    \cup [op : {"resetLock"}]
    \cup [op : {"write"}, rec : Indexes, val : Strings, pwd : Passwords]
    \cup [op : {"read"}, rec : Indexes, pwd : Passwords]

(* The fields of a command that came in one packet. *)
Carried(c) ==
  \/ /\ c.op = "set" /\ c.rec \in Settings
     /\ c.val \in Values /\ Len(c.val) <= LenOf(c.rec)
  \/ c.op \in {"restore", "info"} /\ c.rec \in Settings
  \/ /\ c.op = "initLock"
     /\ c.wpwd \in Values /\ Len(c.wpwd) <= LenOf(WPwd)
     /\ c.rpwd \in Values /\ Len(c.rpwd) <= LenOf(RPwd)
  \/ c.op = "resetLock"
  \/ /\ c.op = "write" /\ c.rec \in Slots
     /\ c.val \in Strings /\ Len(c.val) <= SlotLen
  \/ c.op = "read" /\ c.rec \in Slots

CommandOK ==
  /\ stage \in {"idle", "check", "run"}
  /\ stage = "idle" <=> cmd = Idle
  /\ stage # "idle" => cmd \in Commands /\ (~mixed => Carried(cmd))
  /\ stage = "check" => cmd.op \in {"write", "read"}
  /\ mixed \in BOOLEAN /\ (stage = "idle" => ~mixed)
  /\ mixed => cmd.op \in {"set", "initLock", "write", "read"}
  /\ presented \subseteq Passwords
  /\ stage # "idle" /\ cmd.op = "write" => cmd.pwd \in presented

Reads == stage = "check" \/ (stage = "run" /\ cmd.op \in {"info", "read"})

OpsFit ==
  /\ Reads => \A o \in Elems(queue) : o.op = "read"
  /\ ~Reads => got = <<>> /\ \A o \in Elems(queue) : o.op = "write"

Fielded == {"set", "initLock", "write"}

LengthOK ==
  stage = "run" /\ ~mixed /\ cmd.op \in Fielded => Len(queue) <= Len(Accesses(cmd))

RegistersOK ==
  /\ mem \in [Addresses -> Nat]
  /\ EEAR \in Addresses /\ EEDR \in Nat
  /\ loaded \in BOOLEAN /\ (loaded => queue # <<>>)
  /\ EEPE \in BOOLEAN /\ ~(EEPE /\ loaded)
  /\ collided \in BOOLEAN

ListsOK ==
  /\ queue \in Seq(Ops) /\ got \in Seq(Nat)
  /\ stage = "idle" => queue = <<>>
  /\ want \in [Records -> Seq(Nat)]

TypeInv == RegistersOK /\ ListsOK /\ CommandOK /\ OpsFit /\ LengthOK

LEMMA ValuesTyped ==
  /\ Values \subseteq Seq(Nat) /\ Strings \subseteq Seq(Nat) /\ TORN \in Seq(Nat) /\ <<>> \in Seq(Nat)
<1>1. \A v \in Seq(Nat \ {0}) : v \in Seq(Nat)
  BY LenProperties
<1> QED
  BY <1>1, StoreAssumption DEF TORN

LEMMA RecordsAre ==
  /\ \A r \in Settings : r \in Records
  /\ WPwd \in Records /\ RPwd \in Records
  /\ \A r \in Slots : r \in Records /\ r \in Indexes /\ LenOf(r) = SlotLen
  /\ \A r \in Indexes : r \in Places /\ LenOf(r) = SlotLen
  /\ \A r \in Records : r \in Places
BY DEF Records, Fixed, LenOf, Indexes, Places

LEMMA AccessesAre ==
  ASSUME NEW c \in Commands, c.op \in Fielded
  PROVE  /\ Accesses(c) \in Seq(Ops) /\ \A o \in Elems(Accesses(c)) : o.op = "write"
         /\ Len(Accesses(c)) =
              IF c.op = "initLock" THEN LenOf(WPwd) + LenOf(RPwd) + 4 + Len(UntagSlots)
              ELSE LenOf(c.rec) + 2
<1>1. CASE c.op = "initLock"
  <2>1. c.wpwd \in Seq(Nat) /\ c.rpwd \in Seq(Nat)
    BY <1>1, ValuesTyped DEF Commands
  <2> QED
    BY <1>1, <2>1, InitLockOps DEF Accesses
<1>2. CASE c.op # "initLock"
  <2>1. c.rec \in Settings \cup Indexes /\ c.val \in Values \cup Strings
    BY <1>2 DEF Commands, Fielded
  <2>2. c.rec \in Places /\ c.val \in Seq(Nat)
    BY <2>1, RecordsAre, ValuesTyped
  <2>3. Accesses(c) = WriteRecord(c.rec, c.val)
    BY <1>2 DEF Accesses
  <2> QED
    BY <1>2, <2>2, <2>3, WritePlaceOps DEF Wr
<1> QED
  BY <1>1, <1>2

LEMMA InitTyped == Init => TypeInv
<1> SUFFICES ASSUME Init PROVE TypeInv
  OBVIOUS
<1>1. 0 \in Addresses /\ Erased \in Nat
  BY SizePositive, StoreAssumption DEF Addresses
<1>2. RegistersOK
  BY <1>1 DEF Init, RegistersOK, Addresses
<1>3. ListsOK
  BY EmptySeq DEF Init, ListsOK
<1>4. CommandOK
  BY DEF Init, CommandOK
<1>5. OpsFit /\ LengthOK
  BY ElemsEmpty DEF Init, OpsFit, LengthOK, Reads
<1> QED
  BY <1>2, <1>3, <1>4, <1>5 DEF TypeInv

(* How a command starts. *)
LEMMA StartTyped ==
  ASSUME TypeInv, NEW c, NEW ops \in Seq(Ops), NEW st \in {"check", "run"}, NEW changed,
         Start(c, ops, st, changed), c # Idle, c \in Commands, Carried(c),
         st = "check" => c.op \in {"write", "read"},
         IF st = "check" \/ c.op = "info" THEN \A o \in Elems(ops) : o.op = "read"
         ELSE /\ c.op # "read" /\ \A o \in Elems(ops) : o.op = "write"
              /\ c.op \in Fielded => ops = Accesses(c)
  PROVE  TypeInv'
<1>1. /\ cmd' = c /\ queue' = ops /\ stage' = st /\ got' = <<>>
      /\ want' = [r \in Records |-> IF r \in changed THEN TORN ELSE want[r]]
      /\ stage = "idle" /\ UNCHANGED <<mem, EEAR, EEDR, loaded, EEPE, collided>>
  BY DEF Start
<1>0. mixed' = FALSE /\ presented' = IF c.op = "write" THEN {c.pwd} ELSE {}
  BY DEF Start
<1>2. ~loaded
  BY <1>1 DEF TypeInv, ListsOK, RegistersOK
<1>3. RegistersOK'
  BY <1>1, <1>2 DEF TypeInv, RegistersOK
<1>4. want' \in [Records -> Seq(Nat)]
  BY <1>1, ValuesTyped DEF TypeInv, ListsOK
<1>5. ListsOK'
  BY <1>1, <1>4, EmptySeq DEF ListsOK
<1>6. presented' \subseteq Passwords /\ (c.op = "write" => c.pwd \in presented')
  BY <1>0 DEF Commands
<1>7. CommandOK'
  BY <1>0, <1>1, <1>6 DEF CommandOK
<1>8. OpsFit'
  BY <1>1 DEF OpsFit, Reads
<1>9. LengthOK'
  <2> SUFFICES ASSUME st = "run", c.op \in Fielded PROVE Len(ops) <= Len(Accesses(c))
    BY <1>1 DEF LengthOK
  <2>1. ops = Accesses(c) /\ Len(ops) \in Nat
    BY DEF Fielded
  <2> QED
    BY <2>1
<1> QED
  BY <1>3, <1>5, <1>7, <1>8, <1>9 DEF TypeInv

LEMMA CommandTyped ==
  ASSUME TypeInv,
         \/ SetRecord \/ RestoreRecord \/ Info
         \/ InitLock \/ ResetLock \/ WriteStr \/ ReadStr
  PROVE  TypeInv'
<1>1. CASE SetRecord
  <2>1. PICK r \in Settings, v \in Values :
          /\ Len(v) <= LenOf(r)
          /\ Start([op |-> "set", rec |-> r, val |-> v], WriteRecord(r, v), "run", {r})
    BY <1>1 DEF SetRecord
  <2>2. WriteRecord(r, v) \in Seq(Ops) /\ \A o \in Elems(WriteRecord(r, v)) : o.op = "write"
    BY RecordsAre, ValuesTyped, WriteRecordOps DEF Wr
  <2> DEFINE c == [op |-> "set", rec |-> r, val |-> v]
  <2>3. c # Idle /\ c \in Commands /\ Carried(c)
    BY <2>1 DEF Idle, Commands, Carried
  <2>4. WriteRecord(r, v) = Accesses(c)
    BY DEF Accesses
  <2> QED
    BY <2>1, <2>2, <2>3, <2>4, StartTyped
<1>2. CASE RestoreRecord
  <2>1. PICK r \in Settings :
          Start([op |-> "restore", rec |-> r], Untag(r), "run", {r})
    BY <1>2 DEF RestoreRecord
  <2>2. Untag(r) \in Seq(Ops) /\ \A o \in Elems(Untag(r)) : o.op = "write"
    BY RecordsAre, UntagOps DEF Wr
  <2> DEFINE c == [op |-> "restore", rec |-> r]
  <2>3. c # Idle /\ c \in Commands /\ Carried(c) /\ c.op \notin Fielded
    BY DEF Idle, Commands, Carried, Fielded
  <2> QED
    BY <2>1, <2>2, <2>3, StartTyped
<1>3. CASE Info
  <2>1. PICK r \in Settings : Start([op |-> "info", rec |-> r], ReadTag(r), "run", {})
    BY <1>3 DEF Info
  <2>2. ReadTag(r) \in Seq(Ops) /\ \A o \in Elems(ReadTag(r)) : o.op = "read"
    BY RecordsAre, ReadTagOps
  <2> DEFINE c == [op |-> "info", rec |-> r]
  <2>3. c # Idle /\ c \in Commands /\ Carried(c) /\ c.op = "info"
    BY DEF Idle, Commands, Carried
  <2> QED
    BY <2>1, <2>2, <2>3, StartTyped
<1>4. CASE InitLock
  <2>1. PICK w \in Values, p \in Values :
          /\ Len(w) <= LenOf(WPwd) /\ Len(p) <= LenOf(RPwd)
          /\ Start([op |-> "initLock", wpwd |-> w, rpwd |-> p], LockRecords(w, p),
                   "run", {WPwd, RPwd} \cup Slots)
    BY <1>4 DEF InitLock
  <2> DEFINE ops == LockRecords(w, p)
             c == [op |-> "initLock", wpwd |-> w, rpwd |-> p]
  <2>2. ops \in Seq(Ops) /\ \A o \in Elems(ops) : o.op = "write"
    <3>1. w \in Seq(Nat) /\ p \in Seq(Nat)
      BY ValuesTyped
    <3> QED
      BY <3>1, InitLockOps
  <2>3. c # Idle /\ c \in Commands /\ Carried(c)
    BY <2>1 DEF Idle, Commands, Carried
  <2>4. ops = Accesses(c)
    BY DEF Accesses
  <2> QED
    BY <2>1, <2>2, <2>3, <2>4, StartTyped
<1>5. CASE ResetLock
  <2> DEFINE ops == Untag(WPwd) \o Untag(RPwd) \o UntagSlots
             c == [op |-> "resetLock"]
  <2>1. Start(c, ops, "run", {WPwd, RPwd} \cup Slots)
    BY <1>5 DEF ResetLock
  <2>2. ops \in Seq(Ops) /\ \A o \in Elems(ops) : o.op = "write"
    BY ResetLockOps
  <2>3. c # Idle /\ c \in Commands /\ Carried(c) /\ c.op \notin Fielded
    BY DEF Idle, Commands, Carried, Fielded
  <2> QED
    BY <2>1, <2>2, <2>3, StartTyped
<1>6. CASE WriteStr
  <2>1. PICK i \in Slots, v \in Strings, p \in Passwords :
          /\ Len(v) <= SlotLen
          /\ Start([op |-> "write", rec |-> i, val |-> v, pwd |-> p],
                   ReadTag(WPwd), "check", {})
    BY <1>6 DEF WriteStr
  <2> DEFINE c == [op |-> "write", rec |-> i, val |-> v, pwd |-> p]
  <2>2. ReadTag(WPwd) \in Seq(Ops) /\ \A o \in Elems(ReadTag(WPwd)) : o.op = "read"
    BY RecordsAre, ReadTagOps
  <2>3. c # Idle /\ c \in Commands /\ Carried(c) /\ c.op \in {"write", "read"}
    BY <2>1 DEF Idle, Commands, Carried, Indexes
  <2> QED
    BY <2>1, <2>2, <2>3, StartTyped
<1>7. CASE ReadStr
  <2>1. PICK i \in Slots, p \in Passwords :
          Start([op |-> "read", rec |-> i, pwd |-> p], ReadTag(RPwd), "check", {})
    BY <1>7 DEF ReadStr
  <2> DEFINE c == [op |-> "read", rec |-> i, pwd |-> p]
  <2>2. ReadTag(RPwd) \in Seq(Ops) /\ \A o \in Elems(ReadTag(RPwd)) : o.op = "read"
    BY RecordsAre, ReadTagOps
  <2>3. c # Idle /\ c \in Commands /\ Carried(c) /\ c.op \in {"write", "read"}
    BY DEF Idle, Commands, Carried, Indexes
  <2> QED
    BY <2>1, <2>2, <2>3, StartTyped
<1> QED
  BY <1>1, <1>2, <1>3, <1>4, <1>5, <1>6, <1>7

LEMMA SourceTyped ==
  ASSUME CommandOK, Reads
  PROVE  Source \in Places /\ (stage = "check" \/ ~mixed => Source \in Records)
<1>1. CASE stage = "check"
  BY <1>1, RecordsAre DEF Source
<1>2. CASE stage = "run"
  <2>1. cmd.op \in {"info", "read"} /\ Source = cmd.rec /\ cmd \in Commands
    BY <1>2 DEF CommandOK, Reads, Source
  <2>2. cmd.rec \in Settings \cup Indexes
    BY <2>1 DEF Commands
  <2>3. ~mixed => cmd.rec \in Settings \cup Slots
    BY <1>2, <2>1 DEF CommandOK, Carried
  <2> QED
    BY <1>2, <2>1, <2>2, <2>3, RecordsAre
<1> QED
  BY <1>1, <1>2 DEF Reads

LEMMA TagValidTyped ==
  ASSUME TypeInv, TagValid
  PROVE  TypeInv' /\ Reads
<1>1. /\ queue = <<>> /\ queue' = ReadValue(Source) /\ Len(got) = 2
      /\ UNCHANGED <<mem, EEAR, EEDR, loaded, EEPE, got, cmd, stage, mixed, presented, want,
                    collided>>
  BY DEF TagValid, ValueDue
<1>2. Reads
  BY <1>1 DEF TypeInv, OpsFit
<1>3. ReadValue(Source) \in Seq(Ops) /\ \A o \in Elems(ReadValue(Source)) : o.op = "read"
  BY <1>2, SourceTyped, ReadValueOps DEF TypeInv
<1>4. stage # "idle"
  BY <1>2 DEF Reads
<1>5. RegistersOK' /\ ListsOK' /\ CommandOK' /\ OpsFit'
  BY <1>1, <1>2, <1>3, <1>4
     DEF TypeInv, RegistersOK, ListsOK, CommandOK, OpsFit, Reads
<1>6. LengthOK'
  BY <1>1, <1>2 DEF LengthOK, Reads, Fielded
<1> QED
  BY <1>2, <1>5, <1>6 DEF TypeInv

LEMMA DoubtedTyped ==
  ASSUME TypeInv, NEW q
  PROVE  /\ Doubted(q) \in [Records -> Seq(Nat)]
         /\ \A r \in Records : Doubted(q)[r] = IF Reaches(q, r) THEN TORN ELSE want[r]
BY ValuesTyped DEF TypeInv, ListsOK, Doubted

LEMMA CheckTyped ==
  ASSUME TypeInv, Check
  PROVE  TypeInv'
<1>1. /\ stage = "check" /\ queue = <<>> /\ got' = <<>>
      /\ UNCHANGED <<mem, EEAR, EEDR, loaded, EEPE, collided>>
  BY DEF Check
<1>2. ~loaded
  BY <1>1 DEF TypeInv, RegistersOK
<1>3. RegistersOK'
  BY <1>1, <1>2 DEF TypeInv, RegistersOK
<1>4. /\ cmd.op \in {"write", "read"} /\ cmd \in Commands /\ cmd # Idle
      /\ CommandOK
  BY <1>1 DEF TypeInv, CommandOK
<1>5. CASE stage' = "idle"
  <2>1. cmd' = Idle /\ queue' = <<>> /\ want' = want /\ mixed' = FALSE /\ presented' = {}
    BY <1>1, <1>5 DEF Check
  <2> QED
    BY <1>1, <1>3, <1>5, <2>1, ElemsEmpty, EmptySeq
       DEF TypeInv, ListsOK, CommandOK, OpsFit, LengthOK, Reads
<1>6. CASE cmd.op = "write" /\ stage' = "run"
  <2>1. /\ queue' = WriteRecord(cmd.rec, cmd.val) /\ cmd' = cmd
        /\ want' = IF mixed THEN Doubted(queue') ELSE [want EXCEPT ![cmd.rec] = TORN]
        /\ mixed' = mixed /\ presented' = presented
    BY <1>6 DEF Check
  <2>2. queue' = Accesses(cmd)
    BY <1>6, <2>1 DEF Accesses
  <2>3. queue' \in Seq(Ops) /\ \A o \in Elems(queue') : o.op = "write"
    BY <1>4, <1>6, <2>2, AccessesAre DEF Fielded
  <2>4. want' \in [Records -> Seq(Nat)]
    BY <2>1, ValuesTyped, DoubtedTyped DEF TypeInv, ListsOK
  <2>5. ListsOK'
    BY <1>1, <1>6, <2>3, <2>4, EmptySeq DEF ListsOK
  <2>6. CommandOK' /\ OpsFit'
    BY <1>1, <1>4, <1>6, <2>1, <2>3 DEF CommandOK, OpsFit, Reads
  <2>7. Len(queue') <= Len(Accesses(cmd))
    BY <2>2, <2>3
  <2>8. LengthOK'
    BY <2>1, <2>7 DEF LengthOK
  <2> QED
    BY <1>3, <2>5, <2>6, <2>8 DEF TypeInv
<1>7. CASE cmd.op = "read" /\ stage' = "run"
  <2>1. /\ queue' = ReadTag(cmd.rec) /\ cmd' = cmd /\ want' = want
        /\ mixed' = mixed /\ presented' = presented
    BY <1>7 DEF Check
  <2>2. cmd.rec \in Places
    BY <1>4, <1>7, RecordsAre DEF Commands
  <2>3. queue' \in Seq(Ops) /\ \A o \in Elems(queue') : o.op = "read"
    BY <2>1, <2>2, ReadTagOps
  <2>4. ListsOK'
    BY <1>1, <1>7, <2>1, <2>3, EmptySeq DEF TypeInv, ListsOK
  <2>5. CommandOK' /\ OpsFit' /\ LengthOK'
    BY <1>1, <1>4, <1>7, <2>1, <2>3 DEF CommandOK, OpsFit, LengthOK, Fielded, Reads
  <2> QED
    BY <1>3, <2>4, <2>5 DEF TypeInv
<1> QED
  BY <1>1, <1>4, <1>5, <1>6, <1>7 DEF Check

LEMMA GivenTyped ==
  ASSUME TypeInv, stage = "run", ~mixed, NEW r \in Records
  PROVE  Given(r) \in Seq(Nat)
<1>1. want[r] \in Seq(Nat) /\ <<>> \in Seq(Nat)
  BY EmptySeq DEF TypeInv, ListsOK
<1>2. Carried(cmd)
  BY DEF TypeInv, CommandOK
<1>3. cmd.op \in {"set", "write"} => cmd.val \in Seq(Nat)
  BY <1>2, ValuesTyped DEF Carried
<1>4. cmd.op = "initLock" => cmd.wpwd \in Seq(Nat) /\ cmd.rpwd \in Seq(Nat)
  BY <1>2, ValuesTyped DEF Carried
<1> QED
  BY <1>1, <1>3, <1>4 DEF Given

LEMMA FinishTyped ==
  ASSUME TypeInv, Finish
  PROVE  TypeInv'
<1>1. /\ stage = "run" /\ queue = <<>> /\ got' = <<>> /\ stage' = "idle" /\ cmd' = Idle
      /\ want' = IF mixed THEN want ELSE [r \in Records |-> Given(r)]
      /\ mixed' = FALSE /\ presented' = {}
      /\ UNCHANGED <<mem, EEAR, EEDR, loaded, EEPE, queue, collided>>
  BY DEF Finish
<1>2. want' \in [Records -> Seq(Nat)]
  BY <1>1, GivenTyped DEF TypeInv, ListsOK
<1>3. RegistersOK' /\ ListsOK'
  BY <1>1, <1>2, EmptySeq DEF TypeInv, RegistersOK, ListsOK
<1>4. CommandOK' /\ OpsFit' /\ LengthOK'
  BY <1>1, ElemsEmpty DEF CommandOK, OpsFit, LengthOK, Reads
<1> QED
  BY <1>3, <1>4 DEF TypeInv

LEMMA LoadTyped ==
  ASSUME TypeInv, Load
  PROVE  TypeInv'
<1>1. Head(queue) \in Ops
  BY ElemsTail DEF Load, TypeInv, ListsOK
<1>2. EEAR' \in Addresses /\ EEDR' \in Nat
  BY <1>1 DEF Load, Ops, TypeInv, RegistersOK
<1> QED
  BY <1>2 DEF Load, TypeInv, RegistersOK, ListsOK, CommandOK, OpsFit, LengthOK, Reads

LEMMA AccessTyped ==
  ASSUME TypeInv, Access
  PROVE  TypeInv'
<1>1. /\ loaded /\ loaded' = FALSE /\ queue' = Tail(queue) /\ queue # <<>>
      /\ UNCHANGED <<EEAR, cmd, stage, mixed, presented, want, collided>>
  BY DEF Access, TypeInv, RegistersOK
<1>2. /\ Head(queue) \in Ops /\ queue' \in Seq(Ops)
      /\ Elems(queue) = {Head(queue)} \cup Elems(queue')
  BY <1>1, ElemsTail DEF TypeInv, ListsOK
<1>3. stage # "idle"
  BY <1>1 DEF TypeInv, ListsOK
<1>0. LengthOK'
  <2>1. Len(queue') = Len(queue) - 1 /\ Len(queue) \in Nat
    BY <1>1, HeadTailProperties, LenProperties DEF TypeInv, ListsOK
  <2>2. Len(Accesses(cmd)) \in Nat \/ ~(stage = "run" /\ cmd.op \in Fielded)
    <3> SUFFICES ASSUME stage = "run", cmd.op \in Fielded PROVE Len(Accesses(cmd)) \in Nat
      OBVIOUS
    <3>1. Accesses(cmd) \in Seq(Ops)
      BY AccessesAre DEF TypeInv, CommandOK
    <3> QED
      BY <3>1
  <2> QED
    BY <1>1, <2>1, <2>2 DEF TypeInv, LengthOK
<1>4. CASE Head(queue).op = "write"
  <2>1. mem' = [mem EXCEPT ![EEAR] = EEDR] /\ EEPE' = TRUE /\ UNCHANGED <<EEDR, got>>
    BY <1>4 DEF Access
  <2>2. mem' \in [Addresses -> Nat]
    BY <2>1 DEF TypeInv, RegistersOK
  <2> QED
    BY <1>0, <1>1, <1>2, <1>3, <2>1, <2>2
       DEF TypeInv, RegistersOK, ListsOK, CommandOK, OpsFit, Reads
<1>5. CASE Head(queue).op # "write"
  <2>1. /\ EEDR' = mem[EEAR] /\ got' = Append(got, mem[EEAR])
        /\ UNCHANGED <<mem, EEPE>>
    BY <1>5 DEF Access
  <2>2. mem[EEAR] \in Nat
    BY DEF TypeInv, RegistersOK
  <2>3. got' \in Seq(Nat)
    BY <2>1, <2>2, AppendProperties DEF TypeInv, ListsOK
  <2>4. Reads
    BY <1>2, <1>5 DEF TypeInv, OpsFit
  <2> QED
    BY <1>0, <1>1, <1>2, <1>3, <2>1, <2>2, <2>3, <2>4
       DEF TypeInv, RegistersOK, ListsOK, CommandOK, OpsFit, Reads
<1> QED
  BY <1>4, <1>5

(* What another packet leaves of a command. *)
LEMMA OverlaidAre ==
  ASSUME cmd \in Commands, cmd.op \in Overtaken, NEW c \in Overlaid
  PROVE  /\ c \in Commands /\ c.op = cmd.op
         /\ cmd.op \in {"set", "initLock", "write", "read"}
         /\ cmd.op = "set" => c.rec = cmd.rec
         /\ cmd.op \in {"write", "read"} => cmd.rec \in Indexes /\ c.rec \in Indexes
         /\ cmd.op \in Fielded => Len(Accesses(c)) = Len(Accesses(cmd))
<1>1. CASE cmd.op = "set"
  <2>1. c \in [op : {"set"}, rec : {cmd.rec}, val : Values] /\ cmd.rec \in Settings
    BY <1>1 DEF Overlaid, Commands
  <2>2. c \in Commands /\ c.op = "set" /\ c.rec = cmd.rec
    BY <2>1 DEF Commands
  <2> QED
    BY <1>1, <2>2, AccessesAre DEF Fielded
<1>2. CASE cmd.op = "initLock"
  <2>1. c \in [op : {"initLock"}, wpwd : Values, rpwd : Values]
    BY <1>2 DEF Overlaid
  <2>2. c \in Commands /\ c.op = "initLock"
    BY <2>1 DEF Commands
  <2> QED
    BY <1>2, <2>2, AccessesAre DEF Fielded
<1>3. CASE cmd.op = "write"
  <2>1. cmd.rec \in Indexes /\ cmd.pwd \in Passwords
    BY <1>3 DEF Commands
  <2>2. c \in [op : {"write"}, rec : Indexes, val : Strings, pwd : Passwords]
    BY <1>3, <2>1 DEF Overlaid, NewPasswords
  <2>3. c \in Commands /\ c.op = "write" /\ c.rec \in Indexes
    BY <2>2 DEF Commands
  <2> QED
    BY <1>3, <2>1, <2>3, AccessesAre, RecordsAre DEF Fielded
<1>4. CASE cmd.op = "read"
  <2>1. cmd.rec \in Indexes /\ cmd.pwd \in Passwords
    BY <1>4 DEF Commands
  <2>2. c \in [op : {"read"}, rec : Indexes, pwd : Passwords]
    BY <1>4, <2>1 DEF Overlaid, NewPasswords
  <2>3. c \in Commands /\ c.op = "read" /\ c.rec \in Indexes
    BY <2>2 DEF Commands
  <2> QED
    BY <1>4, <2>1, <2>3 DEF Fielded
<1> QED
  BY <1>1, <1>2, <1>3, <1>4, StoreAssumption

LEMMA RewrittenAre ==
  ASSUME TypeInv, stage # "idle", ~mixed, cmd.op \in Overtaken, NEW c \in Overlaid, NEW q \in Rewritten(c)
  PROVE  /\ q \in Seq(Ops) /\ (queue # <<>> => q # <<>>)
         /\ loaded => Head(q) = Head(queue)
         /\ Reads => \A o \in Elems(q) : o.op = "read"
         /\ ~Reads => \A o \in Elems(q) : o.op = "write"
         /\ stage = "check" => q = queue
         /\ stage = "run" /\ cmd.op \in {"set", "initLock"}
              => Elems(q) \subseteq Elems(queue) \cup Elems(Accesses(c))
<1>1. /\ cmd \in Commands /\ queue \in Seq(Ops) /\ stage \in {"check", "run"}
      /\ Len(queue) \in Nat /\ (loaded => queue # <<>>)
  BY DEF TypeInv, CommandOK, ListsOK, RegistersOK
<1>2. /\ c \in Commands /\ c.op = cmd.op
      /\ cmd.op = "read" => c.rec \in Indexes
      /\ cmd.op \in Fielded => Len(Accesses(c)) = Len(Accesses(cmd))
  BY <1>1, OverlaidAre
<1>3. CASE q = queue
  BY <1>1, <1>3 DEF TypeInv, OpsFit
<1>4. CASE stage = "run" /\ cmd.op \in Fielded
  <2> DEFINE new == Accesses(c)
             done == Len(new) - Len(queue)
  <2>1. /\ new \in Seq(Ops) /\ \A o \in Elems(new) : o.op = "write"
        /\ Len(queue) <= Len(new)
    BY <1>2, <1>4, AccessesAre DEF TypeInv, LengthOK
  <2>2. PICK settled \in Settled(c, done, Len(new)) : q = Remaining(new, done, settled)
    BY <1>2, <1>4 DEF Rewritten, Fielded
  <2>3. ~Reads
    BY <1>4 DEF Reads, Fielded
  <2>4. \A o \in Elems(queue) : o.op = "write"
    BY <2>3 DEF TypeInv, OpsFit
  <2> HIDE DEF new
  <2>5. Len(new) \in Nat /\ done \in Nat /\ done + Len(queue) = Len(new)
    BY <1>1, <2>1
  <2> HIDE DEF done
  <2>6. ASSUME NEW n \in 1..Len(queue)
        PROVE  /\ queue[n] \in Ops /\ queue[n].op = "write"
               /\ new[done + n] \in Ops
    <3>1. done + n \in 1..Len(new)
      BY <1>1, <2>5
    <3> QED
      BY <1>1, <2>1, <2>4, <3>1, LenProperties DEF Elems
  <2> DEFINE F(n) == IF loaded /\ n = 1 THEN queue[n]
                     ELSE Wr(IF done + n <= settled THEN queue[n].a ELSE new[done + n].a,
                             new[done + n].b)
  <2>7. ASSUME NEW n \in 1..Len(queue) PROVE F(n) \in Ops /\ F(n).op = "write"
    <3>1. CASE loaded /\ n = 1
      BY <2>6, <3>1
    <3>2. CASE ~(loaded /\ n = 1)
      <4> DEFINE a == IF done + n <= settled THEN queue[n].a ELSE new[done + n].a
      <4>1. a \in Addresses /\ new[done + n].b \in Nat
        BY <2>6 DEF Ops
      <4> HIDE DEF a
      <4>2. Wr(a, new[done + n].b) \in Ops /\ Wr(a, new[done + n].b).op = "write"
        BY <4>1, WriteTyped DEF Wr
      <4> QED
        BY <3>2, <4>2 DEF a
    <3> QED
      BY <3>1, <3>2
  <2>8. q = [n \in 1..Len(queue) |-> F(n)]
    BY <2>2 DEF Remaining
  <2>9. loaded => F(1) = queue[1]
    OBVIOUS
  <2> HIDE DEF F
  <2>10. q \in Seq(Ops) /\ Len(q) = Len(queue) /\ \A n \in 1..Len(queue) : q[n] = F(n)
    BY <1>1, <2>7, <2>8
  <2>11. \A o \in Elems(q) : o.op = "write"
    BY <2>7, <2>10 DEF Elems
  <2>13. cmd.op \in {"set", "initLock"} => Elems(q) \subseteq Elems(queue) \cup Elems(new)
    <3> SUFFICES ASSUME cmd.op \in {"set", "initLock"}, NEW n \in 1..Len(queue)
                 PROVE  F(n) \in Elems(queue) \cup Elems(new)
      BY <2>10 DEF Elems
    <3>1. settled = 0
      BY <1>2, <2>2 DEF Settled
    <3>2. done + n \in 1..Len(new) /\ ~(done + n <= settled)
      BY <1>1, <2>5, <3>1
    <3>3. queue[n] \in Elems(queue) /\ new[done + n] \in Elems(new)
      BY <3>2 DEF Elems
    <3>4. new[done + n] \in Ops /\ new[done + n].op = "write"
      BY <2>1, <2>6, <3>3
    <3>5. new[done + n] = Wr(new[done + n].a, new[done + n].b)
      BY <3>4 DEF Ops, Wr
    <3>6. F(n) = queue[n] \/ F(n) = new[done + n]
      BY <3>2, <3>5 DEF F
    <3> QED
      BY <3>3, <3>6
  <2>12. loaded => Head(q) = Head(queue)
    <3> SUFFICES ASSUME loaded PROVE Head(q) = Head(queue)
      OBVIOUS
    <3>1. Len(queue) # 0 /\ Head(queue) = queue[1]
      BY <1>1, HeadTailProperties, EmptySeq
    <3>2. Head(q) = q[1] /\ q[1] = F(1)
      BY <1>1, <2>10, <3>1, HeadTailProperties, EmptySeq
    <3> QED
      BY <2>9, <3>1, <3>2
  <2> QED
    BY <1>1, <1>4, <2>3, <2>10, <2>11, <2>12, <2>13, EmptySeq DEF new
<1>5. CASE q # queue /\ ~(stage = "run" /\ cmd.op \in Fielded)
  <2>1. /\ stage = "run" /\ cmd.op = "read" /\ queue # <<>> /\ got = <<>> /\ ~loaded
        /\ q = ReadTag(c.rec)
    BY <1>2, <1>5 DEF Rewritten, Fielded
  <2>2. Len(q) = 2 /\ q \in Seq(Ops) /\ \A o \in Elems(q) : o.op = "read"
    BY <1>2, <2>1, ReadTagOps, RecordsAre
  <2>3. q # <<>>
    BY <2>2
  <2> QED
    BY <2>1, <2>2, <2>3 DEF Reads
<1> QED
  BY <1>3, <1>4, <1>5

LEMMA OverwriteTyped ==
  ASSUME TypeInv, Overwrite
  PROVE  TypeInv'
<1>1. PICK c \in Overlaid : \E q \in Rewritten(c) :
        /\ cmd' = c /\ queue' = q
        /\ presented' = IF c.op = "write" THEN presented \cup {c.pwd} ELSE presented
        /\ want' = Doubted(q)
  BY DEF Overwrite
<1>2. PICK q \in Rewritten(c) :
        /\ cmd' = c /\ queue' = q
        /\ presented' = IF c.op = "write" THEN presented \cup {c.pwd} ELSE presented
        /\ want' = Doubted(q)
  BY <1>1
<1>3. /\ stage # "idle" /\ ~mixed /\ cmd.op \in Overtaken /\ mixed' = TRUE
      /\ UNCHANGED <<mem, EEAR, EEDR, loaded, EEPE, got, stage, collided>>
  BY DEF Overwrite
<1>4. /\ c \in Commands /\ c.op = cmd.op /\ c.op \in {"set", "initLock", "write", "read"}
  BY <1>3, OverlaidAre DEF TypeInv, CommandOK
<1>5. /\ q \in Seq(Ops) /\ (queue # <<>> => q # <<>>)
      /\ Reads => \A o \in Elems(q) : o.op = "read"
      /\ ~Reads => \A o \in Elems(q) : o.op = "write"
  BY <1>3, RewrittenAre
<1>6. c.op = "write" => c.pwd \in Passwords
  BY <1>4 DEF Commands
<1>7. c # Idle
  BY <1>4 DEF Commands, Idle
<1>8. Reads' <=> Reads
  BY <1>2, <1>3, <1>4 DEF Reads
<1>9. RegistersOK'
  BY <1>2, <1>3, <1>5 DEF TypeInv, RegistersOK
<1>10. ListsOK'
  BY <1>2, <1>3, <1>5, DoubtedTyped DEF TypeInv, ListsOK
<1>11. CommandOK'
  BY <1>2, <1>3, <1>4, <1>6, <1>7 DEF TypeInv, CommandOK
<1>12. OpsFit' /\ LengthOK'
  BY <1>2, <1>3, <1>5, <1>8 DEF TypeInv, OpsFit, LengthOK
<1> QED
  BY <1>9, <1>10, <1>11, <1>12 DEF TypeInv

LEMMA HardwareTyped ==
  ASSUME TypeInv, Programmed \/ GetDescriptor \/ PowerLoss
  PROVE  TypeInv'
<1>1. CASE Programmed
  BY <1>1 DEF Programmed, TypeInv, RegistersOK, ListsOK, CommandOK, OpsFit, LengthOK, Reads
<1>2. CASE GetDescriptor
  <2>1. PICK r \in Described :
          \E n \in 0..(IF mem[Tag(r)] = FLAG THEN mem[Tag(r) + 1] ELSE 0) :
            LET last == (Tag(r) + 1 + n) % Size
            IN EEAR' = last /\ EEDR' = mem[last]
    BY <1>2 DEF GetDescriptor
  <2>2. r \in Records /\ Tag(r) \in Nat
    <3>1. r \in Records
      BY RecordsAre, StoreAssumption
    <3> QED
      BY <3>1, RecordFits
  <2>3. PICK n \in Nat : EEAR' = (Tag(r) + 1 + n) % Size /\ EEDR' = mem[(Tag(r) + 1 + n) % Size]
    <3>1. (IF mem[Tag(r)] = FLAG THEN mem[Tag(r) + 1] ELSE 0) \in Nat
      <4>1. Tag(r) \in Addresses /\ Tag(r) + 1 \in Addresses
        BY <2>2, RecordFits DEF Addresses
      <4> QED
        BY <4>1 DEF TypeInv, RegistersOK
    <3> QED
      BY <2>1, <3>1
  <2>4. EEAR' \in Addresses
    BY <2>2, <2>3, SizePositive DEF Addresses
  <2>5. EEDR' \in Nat
    BY <2>3, <2>4 DEF TypeInv, RegistersOK
  <2> QED
    BY <1>2, <2>4, <2>5
       DEF GetDescriptor, TypeInv, RegistersOK, ListsOK, CommandOK, OpsFit, LengthOK, Reads
<1>3. CASE PowerLoss
  <2>1. /\ EEAR' = 0 /\ EEDR' = 0 /\ loaded' = FALSE /\ EEPE' = FALSE
        /\ queue' = <<>> /\ got' = <<>> /\ cmd' = Idle /\ stage' = "idle"
        /\ mixed' = FALSE /\ presented' = {}
        /\ UNCHANGED collided
    BY <1>3 DEF PowerLoss
  <2>2. mem' \in [Addresses -> Nat] /\ want' \in [Records -> Seq(Nat)]
    <3>1. CASE UNCHANGED <<mem, want>>
      BY <3>1 DEF TypeInv, RegistersOK, ListsOK
    <3>2. CASE /\ mem' = [mem EXCEPT ![EEAR] = Erased]
               /\ want' = [r \in Records |-> IF EEAR \in Extent(r) THEN TORN ELSE want[r]]
      BY <3>2, StoreAssumption, ValuesTyped DEF TypeInv, RegistersOK, ListsOK
    <3> QED
      BY <1>3, <3>1, <3>2 DEF PowerLoss
  <2>3. 0 \in Addresses
    BY SizePositive DEF Addresses
  <2> QED
    BY <2>1, <2>2, <2>3, ElemsEmpty, EmptySeq
       DEF TypeInv, RegistersOK, ListsOK, CommandOK, OpsFit, LengthOK, Reads
<1> QED
  BY <1>1, <1>2, <1>3

LEMMA NextTyped == TypeInv /\ [Next]_vars => TypeInv'
<1> SUFFICES ASSUME TypeInv, [Next]_vars PROVE TypeInv'
  OBVIOUS
<1>1. CASE UNCHANGED vars
  BY <1>1 DEF vars, TypeInv, RegistersOK, ListsOK, CommandOK, OpsFit, LengthOK, Reads
<1> QED
  BY <1>1, CommandTyped, TagValidTyped, CheckTyped, FinishTyped, OverwriteTyped, LoadTyped,
     AccessTyped, HardwareTyped DEF Next

LEMMA TypesHold == TypeInv => TypeOK
<1> SUFFICES ASSUME TypeInv PROVE TypeOK
  OBVIOUS
<1>1. \A i \in 1..Len(queue) :
        queue[i].op \in {"read", "write"} /\ queue[i].a \in 0..(Size - 1) /\ queue[i].b \in Nat
  <2>1. \A i \in 1..Len(queue) : queue[i] \in Ops
    BY LenProperties DEF TypeInv, ListsOK
  <2> QED
    BY <2>1 DEF Ops, Addresses
<1> QED
  BY <1>1 DEF TypeInv, RegistersOK, ListsOK, CommandOK, TypeOK, Addresses

(* Types: registers and queued accesses stay inside the EEPROM for any      *)
(* layout that fits it, with interrupts and losses of power at any step.    *)
THEOREM TypeCorrect == Spec => []TypeOK
BY InitTyped, NextTyped, TypesHold, PTL DEF Spec

-----------------------------------------------------------------------------
(* What a list of accesses leaves in a record that overlaps no other.       *)

Clear(r) == \A s \in Records : s # r => Extent(r) \cap Extent(s) = {}

Avoids(q, r) == \A o \in Elems(q) : o.op = "write" => o.a \notin Extent(r)

Agrees(q, a, b) == \A o \in Elems(q) : o.op = "write" /\ o.a = a => o.b = b

Puts(q, a, b) == Wr(a, b) \in Elems(q) /\ Agrees(q, a, b)

Fills(q, r, v) == \A i \in 1..(LenOf(r) + 2) : Puts(q, Tag(r) + i - 1, Image(r, v, i))

LEMMA WriteRecordFills ==
  ASSUME NEW r \in Records, NEW v \in Seq(Nat)
  PROVE  /\ Fills(WriteRecord(r, v), r, v)
         /\ \A s \in Records : s # r /\ Clear(s) => Avoids(WriteRecord(r, v), s)
<1> DEFINE q == WriteRecord(r, v)
           W(i) == Wr(Tag(r) + i - 1, Image(r, v, i))
<1>1. Elems(q) = {W(i) : i \in 1..(LenOf(r) + 2)}
  BY WriteRecordOps
<1>2. Tag(r) \in Nat /\ LenOf(r) \in Nat
  BY RecordFits
<1> HIDE DEF q
<1>3. ASSUME NEW i \in 1..(LenOf(r) + 2)
      PROVE  Puts(q, Tag(r) + i - 1, Image(r, v, i))
  <2>1. W(i) \in Elems(q)
    BY <1>1
  <2>2. ASSUME NEW o \in Elems(q), o.a = Tag(r) + i - 1 PROVE o.b = Image(r, v, i)
    <3>1. PICK j \in 1..(LenOf(r) + 2) : o = W(j)
      BY <1>1
    <3>2. o.a = Tag(r) + j - 1 /\ o.b = Image(r, v, j)
      BY <3>1 DEF Wr
    <3>3. i = j
      BY <1>2, <2>2, <3>2
    <3> QED
      BY <3>2, <3>3
  <2> QED
    BY <2>1, <2>2 DEF Puts, Agrees
<1>4. ASSUME NEW s \in Records, s # r, Clear(s), NEW o \in Elems(q)
      PROVE  o.a \notin Extent(s)
  <2>1. PICK j \in 1..(LenOf(r) + 2) : o = W(j)
    BY <1>1
  <2>2. o.a = Tag(r) + j - 1
    BY <2>1 DEF Wr
  <2>3. o.a \in Extent(r)
    BY <2>2, ImageTyped
  <2> QED
    BY <1>4, <2>3 DEF Clear
<1> QED
  BY <1>3, <1>4 DEF q, Fills, Avoids

LEMMA UntagFills ==
  ASSUME NEW r \in Records
  PROVE  /\ Puts(Untag(r), Tag(r), 0)
         /\ \A s \in Records : s # r /\ Clear(s) => Avoids(Untag(r), s)
<1>1. /\ Elems(Untag(r)) = {Wr(Tag(r), 0), Wr(Tag(r) + 1, 0)}
      /\ Tag(r) \in Extent(r) /\ Tag(r) + 1 \in Extent(r)
  BY UntagOps
<1>2. \A o \in Elems(Untag(r)) : o.b = 0 /\ o.a \in Extent(r)
  BY <1>1 DEF Wr
<1> QED
  BY <1>1, <1>2 DEF Puts, Agrees, Avoids, Clear

LEMMA UntagSlotsFill ==
  /\ \A s \in Slots : Wr(Tag(s), 0) \in Elems(UntagSlots)
  /\ \A o \in Elems(UntagSlots) : o.b = 0
  /\ \A s \in Records \ Slots : Clear(s) => Avoids(UntagSlots, s)
<1> DEFINE n == 2 * NumSlots
           W(i) == Wr(Tag((i + 1) \div 2) + ((i + 1) % 2), 0)
<1>1. NumSlots \in Nat /\ n \in Nat
  BY StoreAssumption
<1>2. Len(UntagSlots) = n /\ \A i \in 1..n : UntagSlots[i] = W(i)
  BY <1>1 DEF UntagSlots
<1>3. ASSUME NEW s \in Slots PROVE Wr(Tag(s), 0) \in Elems(UntagSlots)
  <2> DEFINE i == 2 * s - 1
  <2>1. i \in 1..n /\ (i + 1) \div 2 = s /\ (i + 1) % 2 = 0
    BY <1>1 DEF Slots
  <2>2. Tag(s) \in Nat
    BY RecordsAre, RecordFits
  <2> HIDE DEF i
  <2>3. UntagSlots[i] = Wr(Tag(s), 0)
    BY <1>2, <2>1, <2>2
  <2> QED
    BY <1>2, <2>1, <2>3 DEF Elems
<1>4. ASSUME NEW o \in Elems(UntagSlots) PROVE o.b = 0
  <2>1. PICK i \in 1..n : o = W(i)
    BY <1>2 DEF Elems
  <2> QED
    BY <2>1 DEF Wr
<1>5. ASSUME NEW s \in Records \ Slots, Clear(s) PROVE Avoids(UntagSlots, s)
  <2>1. \A t \in Slots : t \in Records /\ t # s
    BY RecordsAre
  <2> QED
    BY <1>5, <2>1, UntagSlotsOps DEF Avoids, Clear
<1> QED
  BY <1>3, <1>4, <1>5

LEMMA RecordsDiffer ==
  /\ WPwd # RPwd /\ WPwd \notin Slots /\ RPwd \notin Slots
  /\ WPwd \notin Settings /\ RPwd \notin Settings
  /\ \A r \in Settings : r \notin Slots
  /\ Records = Settings \cup {WPwd, RPwd} \cup Slots
BY StoreAssumption DEF Records, Fixed, Indexes

(* Three lists, of which only one writes at an address. *)
LEMMA PutsOne ==
  ASSUME NEW q, NEW s, NEW t, NEW u, Elems(q) = Elems(s) \cup Elems(t) \cup Elems(u),
         NEW r, NEW a \in Extent(r), NEW b
  PROVE  /\ Puts(s, a, b) /\ Avoids(t, r) /\ Avoids(u, r) => Puts(q, a, b)
         /\ Puts(t, a, b) /\ Avoids(s, r) /\ Avoids(u, r) => Puts(q, a, b)
         /\ Puts(u, a, b) /\ Avoids(s, r) /\ Avoids(t, r) => Puts(q, a, b)
BY DEF Puts, Agrees, Avoids

LEMMA FillsOne ==
  ASSUME NEW q, NEW s, NEW t, NEW u, Elems(q) = Elems(s) \cup Elems(t) \cup Elems(u),
         NEW r \in Records, NEW v \in Seq(Nat)
  PROVE  /\ Fills(s, r, v) /\ Avoids(t, r) /\ Avoids(u, r) => Fills(q, r, v)
         /\ Fills(t, r, v) /\ Avoids(s, r) /\ Avoids(u, r) => Fills(q, r, v)
<1>1. \A i \in 1..(LenOf(r) + 2) : Tag(r) + i - 1 \in Extent(r)
  BY ImageTyped
<1>2. ASSUME Fills(s, r, v), Avoids(t, r), Avoids(u, r), NEW i \in 1..(LenOf(r) + 2)
      PROVE  Puts(q, Tag(r) + i - 1, Image(r, v, i))
  BY <1>1, <1>2, PutsOne DEF Fills
<1>3. ASSUME Fills(t, r, v), Avoids(s, r), Avoids(u, r), NEW i \in 1..(LenOf(r) + 2)
      PROVE  Puts(q, Tag(r) + i - 1, Image(r, v, i))
  BY <1>1, <1>3, PutsOne DEF Fills
<1> QED
  BY <1>2, <1>3 DEF Fills

LEMMA InitLockFills ==
  ASSUME NEW w \in Seq(Nat), NEW p \in Seq(Nat),
         NEW ops, ops = LockRecords(w, p),
         NEW r \in Records, Clear(r)
  PROVE  /\ r = WPwd => Fills(ops, r, w)
         /\ r = RPwd => Fills(ops, r, p)
         /\ r \in Slots => Puts(ops, Tag(r), 0)
         /\ r \in Settings => Avoids(ops, r)
<1> DEFINE s == WriteRecord(WPwd, w)
           t == WriteRecord(RPwd, p)
<1>1. Elems(ops) = Elems(s) \cup Elems(t) \cup Elems(UntagSlots)
  BY InitLockOps
<1>2. r # WPwd => Avoids(s, r)
  BY RecordsAre, WriteRecordFills
<1>3. r # RPwd => Avoids(t, r)
  BY RecordsAre, WriteRecordFills
<1>4. r \notin Slots => Avoids(UntagSlots, r)
  BY UntagSlotsFill
<1>5. r = WPwd => Fills(s, r, w)
  BY WriteRecordFills
<1>6. r = RPwd => Fills(t, r, p)
  BY WriteRecordFills
<1> HIDE DEF s, t
<1>7. r = WPwd => Fills(ops, r, w)
  BY <1>1, <1>3, <1>4, <1>5, FillsOne, RecordsDiffer
<1>8. r = RPwd => Fills(ops, r, p)
  BY <1>1, <1>2, <1>4, <1>6, FillsOne, RecordsDiffer
<1>9. r \in Slots => Puts(ops, Tag(r), 0)
  <2>1. Tag(r) \in Extent(r)
    BY UntagOps
  <2>2. r \in Slots => Puts(UntagSlots, Tag(r), 0)
    BY UntagSlotsFill DEF Puts, Agrees
  <2> QED
    BY <1>1, <1>2, <1>3, <2>1, <2>2, PutsOne, RecordsDiffer
<1>10. r \in Settings => Avoids(ops, r)
  BY <1>1, <1>2, <1>3, <1>4, RecordsDiffer DEF Avoids
<1> QED
  BY <1>7, <1>8, <1>9, <1>10

LEMMA ResetLockFills ==
  ASSUME NEW ops, ops = Untag(WPwd) \o Untag(RPwd) \o UntagSlots,
         NEW r \in Records, Clear(r)
  PROVE  IF r \in Settings THEN Avoids(ops, r) ELSE Puts(ops, Tag(r), 0)
<1> DEFINE s == Untag(WPwd)
           t == Untag(RPwd)
<1>1. Elems(ops) = Elems(s) \cup Elems(t) \cup Elems(UntagSlots)
  BY ResetLockOps
<1>2. r # WPwd => Avoids(s, r)
  BY RecordsAre, UntagFills
<1>3. r # RPwd => Avoids(t, r)
  BY RecordsAre, UntagFills
<1>4. r \notin Slots => Avoids(UntagSlots, r)
  BY UntagSlotsFill
<1>5. Tag(r) \in Extent(r)
  BY UntagOps
<1>6. /\ r = WPwd => Puts(s, Tag(r), 0)
      /\ r = RPwd => Puts(t, Tag(r), 0)
  BY UntagFills
<1>7. r \in Slots => Puts(UntagSlots, Tag(r), 0)
  BY UntagSlotsFill DEF Puts, Agrees
<1> HIDE DEF s, t
<1>8. r \in Settings => Avoids(ops, r)
  BY <1>1, <1>2, <1>3, <1>4, RecordsDiffer DEF Avoids
<1>9. r \in Slots => Puts(ops, Tag(r), 0)
  BY <1>1, <1>2, <1>3, <1>5, <1>7, PutsOne, RecordsDiffer
<1>10. r = WPwd => Puts(ops, Tag(r), 0)
  BY <1>1, <1>3, <1>4, <1>5, <1>6, PutsOne, RecordsDiffer
<1>11. r = RPwd => Puts(ops, Tag(r), 0)
  BY <1>1, <1>2, <1>4, <1>5, <1>6, PutsOne, RecordsDiffer
<1> QED
  BY <1>8, <1>9, <1>10, <1>11, RecordsDiffer

-----------------------------------------------------------------------------
(* The records between the steps of a command.  A record no command is      *)
(* changing holds its value and no queued write reaches it; in a record a   *)
(* command is changing, every byte of the new value is there or queued.     *)
(* Once fields of the command have been overwritten, what it may still      *)
(* reach is in doubt and the rest holds its value.                          *)

Due(a, b) == Agrees(queue, a, b) /\ (Wr(a, b) \in Elems(queue) \/ mem[a] = b)

Changing(r) ==
  /\ stage = "run"
  /\ \/ cmd.op \in {"set", "restore", "write"} /\ cmd.rec = r
     \/ cmd.op \in {"initLock", "resetLock"} /\ r \in {WPwd, RPwd} \cup Slots

Fresh(r) == cmd.op \in {"set", "write"} \/ (cmd.op = "initLock" /\ r \notin Slots)

InHand(r) ==
  IF Fresh(r) THEN \A i \in 1..(LenOf(r) + 2) : Due(Tag(r) + i - 1, Image(r, Given(r), i))
  ELSE Due(Tag(r), 0)

Holds(r) == want[r] # TORN => Stored(r) = want[r]

Kept(r) ==
  IF mixed THEN want[r] = TORN \/ (Avoids(queue, r) /\ Stored(r) = want[r])
  ELSE IF Changing(r) THEN want[r] = TORN /\ InHand(r)
  ELSE Avoids(queue, r) /\ Holds(r)

KeptInv == ~collided => \A r \in Records : Clear(r) => Kept(r)

RegisterInv ==
  ~collided /\ loaded =>
    EEAR = Head(queue).a /\ (Head(queue).op = "write" => EEDR = Head(queue).b)

(* What a command has read of its record, and what it is still to read. *)
ReadInv ==
  ~collided /\ Reads /\ ~(mixed /\ stage = "run") =>
    /\ \/ Len(got) + Len(queue) = 2
       \/ Len(got) + Len(queue) = LenOf(Source) + 2 /\ Len(got) >= 2 /\ got[1] = FLAG
    /\ \A i \in 1..Len(got) : got[i] = mem[Tag(Source) + i - 1]
    /\ \A i \in 1..Len(queue) : queue[i] = ReadOp(Source, Len(got) + i)

StoreInv == TypeInv /\ KeptInv /\ RegisterInv /\ ReadInv

LEMMA BytesOf ==
  ASSUME NEW r \in Records, mem \in [Addresses -> Nat]
  PROVE  /\ LenOf(r) \in Nat /\ Bytes(r) \in Seq(Nat) /\ Len(Bytes(r)) = LenOf(r) + 2
         /\ \A i \in 1..(LenOf(r) + 2) : Bytes(r)[i] = mem[Tag(r) + i - 1]
         /\ Bytes(r)[1] = mem[Tag(r)]
<1>1. LenOf(r) \in Nat /\ Tag(r) \in Nat
  BY RecordFits
<1>2. \A i \in 1..(LenOf(r) + 2) : mem[Tag(r) + i - 1] \in Nat
  <2>1. <<>> \in Seq(Nat)
    OBVIOUS
  <2> QED
    BY <2>1, ImageTyped
<1>3. Bytes(r) \in Seq(Nat) /\ Len(Bytes(r)) = LenOf(r) + 2
  <2> DEFINE n == LenOf(r) + 2
             F(i) == mem[Tag(r) + i - 1]
  <2>1. n \in Nat /\ \A i \in 1..n : F(i) \in Nat
    BY <1>1, <1>2
  <2>2. Bytes(r) = [i \in 1..n |-> F(i)]
    BY DEF Bytes
  <2> HIDE DEF n, F
  <2>3. Bytes(r) \in Seq(Nat) /\ Len(Bytes(r)) = n
    BY <2>1, <2>2
  <2> QED
    BY <2>3 DEF n
<1>4. 1 \in 1..(LenOf(r) + 2) /\ Tag(r) + 1 - 1 = Tag(r)
  BY <1>1
<1> QED
  BY <1>1, <1>3, <1>4 DEF Bytes

(* A step that leaves the bytes of a record alone leaves its value alone.   *)
LEMMA StoredSame ==
  ASSUME NEW r \in Records, \A a \in Extent(r) : mem'[a] = mem[a]
  PROVE  Stored(r)' = Stored(r)
<1>1. <<>> \in Seq(Nat)
  OBVIOUS
<1>2. \A i \in 1..(LenOf(r) + 2) : mem'[Tag(r) + i - 1] = mem[Tag(r) + i - 1]
  BY <1>1, ImageTyped
<1>3. Bytes(r)' = Bytes(r)
  BY <1>2 DEF Bytes
<1> QED
  BY <1>3 DEF Stored

(* A record whose bytes are those of a value holds the value. *)
LEMMA StoredValue ==
  ASSUME NEW r \in Records, mem \in [Addresses -> Nat],
         NEW v \in Seq(Nat \ {0}), Len(v) <= LenOf(r),
         \A i \in 1..(LenOf(r) + 2) : mem[Tag(r) + i - 1] = Image(r, v, i)
  PROVE  Stored(r) = v
<1> DEFINE n == LenOf(r)
           b == Bytes(r)
<1>1. /\ n \in Nat /\ b \in Seq(Nat) /\ Len(b) = n + 2
      /\ \A i \in 1..(n + 2) : b[i] = Image(r, v, i)
  BY BytesOf
<1>2. v \in Seq(Nat)
  BY LenProperties
<1>3. /\ Pad(v, n) \in Seq(Nat) /\ Len(Pad(v, n)) = n
  BY <1>1, <1>2, PadTyped
<1> HIDE DEF b, n
<1>4. b[1] = FLAG /\ \A i \in 1..n : b[i + 2] = Pad(v, n)[i]
  <2>1. Image(r, v, 1) = FLAG
    BY DEF Image
  <2>2. \A i \in 1..n : Image(r, v, i + 2) = Pad(v, n)[(i + 2) - 2]
    BY <1>1 DEF Image, n
  <2>3. \A i \in 1..n : (i + 2) - 2 = i /\ i + 2 \in 1..(n + 2)
    BY <1>1
  <2>4. 1 \in 1..(n + 2)
    BY <1>1
  <2> QED
    BY <1>1, <2>1, <2>2, <2>3, <2>4
<1>5. SubSeq(b, 3, Len(b)) = Pad(v, n)
  <2>1. /\ SubSeq(b, 3, n + 2) \in Seq(Nat) /\ Len(SubSeq(b, 3, n + 2)) = n
        /\ \A i \in 1..n : SubSeq(b, 3, n + 2)[i] = b[i + 2]
    BY <1>1
  <2> QED
    BY <1>1, <1>3, <1>4, <2>1
<1>6. CString(Pad(v, n)) = v
  BY <1>1, CStringOfPad DEF n
<1> QED
  BY <1>4, <1>5, <1>6 DEF Stored, Decode, b

LEMMA StoredNone ==
  ASSUME NEW r \in Records, mem \in [Addresses -> Nat], mem[Tag(r)] # FLAG
  PROVE  Stored(r) = <<>>
BY BytesOf DEF Stored, Decode

(* Once the accesses are done, a record a command changed holds what it was *)
(* given.                                                                   *)
LEMMA ChangedHolds ==
  ASSUME TypeInv, ~mixed, queue = <<>>, NEW r \in Records, Changing(r), InHand(r)
  PROVE  Stored(r) = Given(r)
<1>1. \A a, b : Due(a, b) => mem[a] = b
  BY ElemsEmpty DEF Due
<1>2. mem \in [Addresses -> Nat] /\ Carried(cmd)
  BY DEF TypeInv, RegistersOK, CommandOK, Changing
<1>3. CASE Fresh(r)
  <2>1. \A i \in 1..(LenOf(r) + 2) : mem[Tag(r) + i - 1] = Image(r, Given(r), i)
    BY <1>1, <1>3 DEF InHand
  <2>2. Given(r) \in Values \cup Strings /\ Len(Given(r)) <= LenOf(r)
    BY <1>2, <1>3, RecordsAre, RecordsDiffer DEF Carried, Changing, Fresh, Given
  <2>3. Given(r) \in Seq(Nat \ {0})
    BY <2>2, StoreAssumption
  <2> QED
    BY <1>2, <2>1, <2>2, <2>3, StoredValue
<1>4. CASE ~Fresh(r)
  <2>1. mem[Tag(r)] = 0
    BY <1>1, <1>4 DEF InHand
  <2>2. Given(r) = <<>>
    BY <1>4, RecordsDiffer DEF Changing, Fresh, Given
  <2> QED
    BY <1>2, <2>1, <2>2, StoredNone, StoreAssumption
<1> QED
  BY <1>3, <1>4

(* Once a command has read its record, it knows what the record holds.      *)
LEMMA ReadDone ==
  ASSUME TypeInv, ReadInv, ~collided, Reads, ~(mixed /\ stage = "run"), queue = <<>>, ~ValueDue
  PROVE  Source \in Records /\ Decode(got) = Stored(Source)
<1> DEFINE r == Source
<1>1. r \in Records
  BY SourceTyped DEF TypeInv, Reads
<1>2. mem \in [Addresses -> Nat] /\ got \in Seq(Nat)
  BY DEF TypeInv, RegistersOK, ListsOK
<1>3. /\ LenOf(r) \in Nat /\ Bytes(r) \in Seq(Nat) /\ Len(Bytes(r)) = LenOf(r) + 2
      /\ \A i \in 1..(LenOf(r) + 2) : Bytes(r)[i] = mem[Tag(r) + i - 1]
      /\ Bytes(r)[1] = mem[Tag(r)]
  BY <1>1, <1>2, BytesOf
<1>4. Len(got) \in Nat /\ Len(queue) = 0
  BY <1>2
<1>5. \/ Len(got) = 2
      \/ Len(got) = LenOf(r) + 2
  BY <1>4 DEF ReadInv
<1>6. \A i \in 1..Len(got) : got[i] = mem[Tag(r) + i - 1]
  BY DEF ReadInv
<1> HIDE DEF r
<1>7. \A i \in 1..Len(got) : got[i] = Bytes(r)[i]
  <2> DEFINE n == LenOf(r)
             g == Len(got)
  <2>1. n \in Nat /\ g \in Nat /\ (g = 2 \/ g = n + 2)
    BY <1>3, <1>4, <1>5
  <2> HIDE DEF n, g
  <2>2. \A i \in 1..g : i \in 1..(n + 2)
    BY <2>1
  <2> QED
    BY <1>3, <1>6, <2>2 DEF n, g
<1>8. CASE Len(got) = 2
  <2>1. got[1] # FLAG
    BY <1>8 DEF ValueDue
  <2>2. Bytes(r)[1] # FLAG
    BY <1>7, <1>8, <2>1
  <2> QED
    BY <1>1, <2>1, <2>2 DEF r, Decode, Stored
<1>9. CASE Len(got) = LenOf(r) + 2
  <2>1. got = Bytes(r)
    BY <1>2, <1>3, <1>7, <1>9
  <2> QED
    BY <1>1, <2>1 DEF r, Stored
<1> QED
  BY <1>5, <1>8, <1>9

LEMMA InitKept == Init => StoreInv
<1> SUFFICES ASSUME Init PROVE StoreInv
  OBVIOUS
<1>1. TypeInv
  BY InitTyped
<1>2. ASSUME NEW r \in Records PROVE Kept(r)
  <2>1. mem \in [Addresses -> Nat] /\ mem[Tag(r)] = Erased
    <3>1. Tag(r) \in Addresses
      BY RecordFits DEF Addresses
    <3> QED
      BY <1>1, <3>1 DEF Init, Addresses, TypeInv, RegistersOK
  <2>2. Stored(r) = <<>> /\ want[r] = <<>>
    BY <2>1, StoredNone, StoreAssumption DEF Init
  <2> QED
    BY <2>2, ElemsEmpty DEF Init, Kept, Holds, Changing, Avoids
<1>3. RegisterInv /\ ReadInv
  BY DEF Init, RegisterInv, ReadInv, Reads
<1> QED
  BY <1>1, <1>2, <1>3 DEF StoreInv, KeptInv

LEMMA ReadsAvoid ==
  ASSUME NEW r \in Places, NEW s
  PROVE  Avoids(ReadTag(r), s) /\ Avoids(ReadValue(r), s)
BY ReadTagOps, ReadValueOps DEF Avoids

LEMMA ReachesAvoids ==
  ASSUME NEW q, NEW r
  PROVE  Reaches(q, r) <=> ~Avoids(q, r)
BY DEF Reaches, Avoids, Elems

(* A record that is kept and not being changed holds its value.             *)
LEMMA KeptHolds ==
  ASSUME StoreInv, ~collided, NEW r \in Records, Clear(r), ~Changing(r)
  PROVE  Holds(r)
BY DEF StoreInv, KeptInv, Kept, Holds

(* How a command starts: it has in hand what it changes and avoids the rest. *)
LEMMA StartKept ==
  ASSUME StoreInv, TypeInv', NEW c, NEW ops, NEW st, NEW changed,
         Start(c, ops, st, changed),
         \A r \in Records : Clear(r) =>
           IF Changing(r)' THEN r \in changed /\ InHand(r)'
           ELSE r \notin changed /\ Avoids(ops, r),
         Reads' => Source' \in Records /\ ops = ReadTag(Source')
  PROVE  StoreInv'
<1>1. /\ cmd' = c /\ queue' = ops /\ stage' = st /\ got' = <<>> /\ stage = "idle"
      /\ want' = [r \in Records |-> IF r \in changed THEN TORN ELSE want[r]]
      /\ mixed' = FALSE /\ UNCHANGED <<mem, EEAR, EEDR, loaded, EEPE, collided>>
  BY DEF Start
<1>2. ~loaded
  BY <1>1 DEF StoreInv, TypeInv, ListsOK, RegistersOK
<1>3. RegisterInv'
  BY <1>1, <1>2 DEF RegisterInv
<1>4. ASSUME ~collided, NEW r \in Records, Clear(r) PROVE Kept(r)'
  <2>1. ~Changing(r)
    BY <1>1 DEF Changing
  <2>2. Holds(r)
    BY <1>4, <2>1, KeptHolds
  <2>3. Stored(r)' = Stored(r)
    BY <1>1, StoredSame
  <2>4. CASE Changing(r)'
    BY <1>1, <1>4, <2>4 DEF Kept
  <2>5. CASE ~Changing(r)'
    <3>1. Avoids(queue, r)' /\ want'[r] = want[r]
      BY <1>1, <1>4, <2>5 DEF Avoids
    <3> QED
      BY <1>1, <2>2, <2>3, <2>5, <3>1 DEF Kept, Holds
  <2> QED
    BY <2>4, <2>5
<1>5. KeptInv'
  BY <1>1, <1>4 DEF KeptInv
<1>6. ReadInv'
  <2> SUFFICES ASSUME Reads' PROVE ReadInv'
    BY DEF ReadInv
  <2>0. Source' \in Places
    BY RecordsAre
  <2>1. /\ Len(queue') = 2 /\ Len(got') = 0
        /\ \A i \in 1..2 : queue'[i] = ReadOp(Source', i)
    BY <1>1, <2>0, ReadTagOps
  <2>2. \A i \in 1..2 : 0 + i = i
    OBVIOUS
  <2> QED
    BY <2>1, <2>2 DEF ReadInv, ReadOp
<1> QED
  BY <1>3, <1>5, <1>6 DEF StoreInv

LEMMA WriteCommandKept ==
  ASSUME StoreInv, SetRecord \/ RestoreRecord \/ InitLock \/ ResetLock
  PROVE  StoreInv'
<1>0. TypeInv'
  BY CommandTyped DEF StoreInv
<1>1. CASE SetRecord
  <2>1. PICK r \in Settings, v \in Values :
          Start([op |-> "set", rec |-> r, val |-> v], WriteRecord(r, v), "run", {r})
    BY <1>1 DEF SetRecord
  <2> DEFINE c == [op |-> "set", rec |-> r, val |-> v]
  <2>2. cmd' = c /\ stage' = "run" /\ queue' = WriteRecord(r, v)
    BY <2>1 DEF Start
  <2>3. r \in Records /\ v \in Seq(Nat)
    BY RecordsAre, ValuesTyped
  <2>4. ASSUME NEW s \in Records, Clear(s)
        PROVE  IF Changing(s)' THEN s \in {r} /\ InHand(s)'
               ELSE s \notin {r} /\ Avoids(WriteRecord(r, v), s)
    <3>1. Changing(s)' <=> s = r
      BY <2>2 DEF Changing
    <3>2. s # r => Avoids(WriteRecord(r, v), s)
      BY <2>3, <2>4, WriteRecordFills
    <3>3. Fills(queue', r, v) /\ Fresh(r)' /\ Given(r)' = v
      BY <2>2, <2>3, WriteRecordFills DEF Fresh, Given
    <3>4. InHand(r)'
      BY <3>3 DEF InHand, Due, Fills, Puts
    <3> QED
      BY <3>1, <3>2, <3>4
  <2>5. ~Reads'
    BY <2>2 DEF Reads
  <2> QED
    BY <1>0, <2>1, <2>4, <2>5, StartKept
<1>2. CASE RestoreRecord
  <2>1. PICK r \in Settings :
          Start([op |-> "restore", rec |-> r], Untag(r), "run", {r})
    BY <1>2 DEF RestoreRecord
  <2>2. cmd' = [op |-> "restore", rec |-> r] /\ stage' = "run" /\ queue' = Untag(r)
    BY <2>1 DEF Start
  <2>3. r \in Records
    BY RecordsAre
  <2>4. ASSUME NEW s \in Records, Clear(s)
        PROVE  IF Changing(s)' THEN s \in {r} /\ InHand(s)'
               ELSE s \notin {r} /\ Avoids(Untag(r), s)
    <3>1. Changing(s)' <=> s = r
      BY <2>2 DEF Changing
    <3>2. s # r => Avoids(Untag(r), s)
      BY <2>3, <2>4, UntagFills
    <3>3. InHand(r)'
      BY <2>2, <2>3, UntagFills DEF InHand, Fresh, Due, Puts
    <3> QED
      BY <3>1, <3>2, <3>3
  <2>5. ~Reads'
    BY <2>2 DEF Reads
  <2> QED
    BY <1>0, <2>1, <2>4, <2>5, StartKept
<1>3. CASE InitLock
  <2>1. PICK w \in Values, p \in Values :
          Start([op |-> "initLock", wpwd |-> w, rpwd |-> p], LockRecords(w, p),
                "run", {WPwd, RPwd} \cup Slots)
    BY <1>3 DEF InitLock
  <2> DEFINE ops == LockRecords(w, p)
             c == [op |-> "initLock", wpwd |-> w, rpwd |-> p]
  <2>2. cmd' = c /\ stage' = "run" /\ queue' = ops
    BY <2>1 DEF Start
  <2>3. w \in Seq(Nat) /\ p \in Seq(Nat)
    BY ValuesTyped
  <2>4. ASSUME NEW s \in Records, Clear(s)
        PROVE  IF Changing(s)' THEN s \in {WPwd, RPwd} \cup Slots /\ InHand(s)'
               ELSE s \notin {WPwd, RPwd} \cup Slots /\ Avoids(ops, s)
    <3>1. Changing(s)' <=> s \in {WPwd, RPwd} \cup Slots
      BY <2>2 DEF Changing
    <3>2. /\ s = WPwd => Fills(ops, s, w)
          /\ s = RPwd => Fills(ops, s, p)
          /\ s \in Slots => Puts(ops, Tag(s), 0)
          /\ s \in Settings => Avoids(ops, s)
      BY <2>3, <2>4, InitLockFills
    <3>3. /\ s = WPwd => Fresh(s)' /\ Given(s)' = w
          /\ s = RPwd => Fresh(s)' /\ Given(s)' = p
          /\ s \in Slots => ~Fresh(s)'
      BY <2>2, RecordsDiffer DEF Fresh, Given
    <3> HIDE DEF ops
    <3>4. s \in {WPwd, RPwd} => InHand(s)'
      BY <2>2, <3>2, <3>3 DEF InHand, Due, Fills, Puts
    <3>5. s \in Slots => InHand(s)'
      BY <2>2, <3>2, <3>3 DEF InHand, Due, Puts
    <3> QED
      BY <3>1, <3>2, <3>4, <3>5, RecordsDiffer
  <2>5. ~Reads'
    BY <2>2 DEF Reads
  <2> QED
    BY <1>0, <2>1, <2>4, <2>5, StartKept
<1>4. CASE ResetLock
  <2> DEFINE ops == Untag(WPwd) \o Untag(RPwd) \o UntagSlots
  <2>1. Start([op |-> "resetLock"], ops, "run", {WPwd, RPwd} \cup Slots)
    BY <1>4 DEF ResetLock
  <2>2. cmd' = [op |-> "resetLock"] /\ stage' = "run" /\ queue' = ops
    BY <2>1 DEF Start
  <2>4. ASSUME NEW s \in Records, Clear(s)
        PROVE  IF Changing(s)' THEN s \in {WPwd, RPwd} \cup Slots /\ InHand(s)'
               ELSE s \notin {WPwd, RPwd} \cup Slots /\ Avoids(ops, s)
    <3>1. Changing(s)' <=> s \in {WPwd, RPwd} \cup Slots
      BY <2>2 DEF Changing
    <3>2. IF s \in Settings THEN Avoids(ops, s) ELSE Puts(ops, Tag(s), 0)
      BY <2>4, ResetLockFills
    <3> HIDE DEF ops
    <3>3. s \notin Settings => InHand(s)'
      BY <2>2, <3>2 DEF InHand, Fresh, Due, Puts
    <3> QED
      BY <3>1, <3>2, <3>3, RecordsDiffer
  <2>5. ~Reads'
    BY <2>2 DEF Reads
  <2> QED
    BY <1>0, <2>1, <2>4, <2>5, StartKept
<1> QED
  BY <1>1, <1>2, <1>3, <1>4

LEMMA ReadCommandKept ==
  ASSUME StoreInv, Info \/ WriteStr \/ ReadStr
  PROVE  StoreInv'
<1>0. TypeInv'
  BY CommandTyped DEF StoreInv
<1>1. CASE Info
  <2>1. PICK r \in Settings : Start([op |-> "info", rec |-> r], ReadTag(r), "run", {})
    BY <1>1 DEF Info
  <2>2. cmd' = [op |-> "info", rec |-> r] /\ stage' = "run"
    BY <2>1 DEF Start
  <2>3. Source' = r /\ r \in Records /\ \A s : ~Changing(s)'
    BY <2>2, RecordsAre DEF Source, Changing
  <2> QED
    BY <1>0, <2>1, <2>3, StartKept, ReadsAvoid, RecordsAre
<1>2. CASE WriteStr
  <2>1. PICK i \in Slots, v \in Strings, p \in Passwords :
          Start([op |-> "write", rec |-> i, val |-> v, pwd |-> p],
                ReadTag(WPwd), "check", {})
    BY <1>2 DEF WriteStr
  <2>2. cmd' = [op |-> "write", rec |-> i, val |-> v, pwd |-> p] /\ stage' = "check"
    BY <2>1 DEF Start
  <2>3. Source' = WPwd /\ WPwd \in Records /\ \A s : ~Changing(s)'
    BY <2>2, RecordsAre DEF Source, Changing
  <2> QED
    BY <1>0, <2>1, <2>3, StartKept, ReadsAvoid, RecordsAre
<1>3. CASE ReadStr
  <2>1. PICK i \in Slots, p \in Passwords :
          Start([op |-> "read", rec |-> i, pwd |-> p], ReadTag(RPwd), "check", {})
    BY <1>3 DEF ReadStr
  <2>2. cmd' = [op |-> "read", rec |-> i, pwd |-> p] /\ stage' = "check"
    BY <2>1 DEF Start
  <2>3. Source' = RPwd /\ RPwd \in Records /\ \A s : ~Changing(s)'
    BY <2>2, RecordsAre DEF Source, Changing
  <2> QED
    BY <1>0, <2>1, <2>3, StartKept, ReadsAvoid, RecordsAre
<1> QED
  BY <1>1, <1>2, <1>3

LEMMA ReadsChangeNothing == Reads => \A r : ~Changing(r)
BY DEF Reads, Changing

LEMMA TagValidKept ==
  ASSUME StoreInv, TagValid
  PROVE  StoreInv'
<1>1. /\ queue = <<>> /\ queue' = ReadValue(Source) /\ Len(got) = 2 /\ got[1] = FLAG
      /\ UNCHANGED <<mem, EEAR, EEDR, loaded, EEPE, got, cmd, stage, mixed, want, collided>>
  BY DEF TagValid, ValueDue
<1>2. TypeInv' /\ Reads
  BY TagValidTyped DEF StoreInv
<1>3. /\ Source \in Places /\ (~(mixed /\ stage = "run") => Source \in Records)
      /\ Source' = Source /\ Reads'
  BY <1>1, <1>2, SourceTyped DEF StoreInv, TypeInv, Source, Reads
<1>4. ~loaded
  BY <1>1 DEF StoreInv, TypeInv, RegistersOK
<1>5. RegisterInv'
  BY <1>1, <1>4 DEF RegisterInv
<1>6. ReadInv'
  <2> SUFFICES ASSUME ~collided, ~(mixed /\ stage = "run") PROVE ReadInv'
    BY <1>1 DEF ReadInv
  <2> DEFINE r == Source
  <2>1. r \in Records /\ r \in Places /\ r = Source'
    BY <1>3
  <2> HIDE DEF r
  <2>2. /\ LenOf(r) \in Nat /\ Len(queue') = LenOf(r)
        /\ \A i \in 1..LenOf(r) : queue'[i] = ReadOp(r, i + 2)
    BY <1>1, <2>1, ReadValueOps DEF r
  <2>3. \A i \in 1..Len(got) : got[i] = mem[Tag(r) + i - 1]
    BY <1>2 DEF r, StoreInv, ReadInv
  <2>4. /\ Len(got') + Len(queue') = LenOf(r) + 2
        /\ Len(got') >= 2 /\ got'[1] = FLAG
    <3> DEFINE n == LenOf(r)
               g == Len(got')
               q == Len(queue')
    <3>1. n \in Nat /\ g = 2 /\ q = n /\ got'[1] = FLAG
      BY <1>1, <2>2
    <3> HIDE DEF n, g, q
    <3>2. g + q = n + 2 /\ g >= 2
      BY <3>1
    <3> QED
      BY <3>1, <3>2 DEF n, g, q
  <2>5. \A i \in 1..Len(queue') : queue'[i] = ReadOp(r, Len(got') + i)
    <3>1. \A i \in 1..LenOf(r) : i + 2 = 2 + i
      OBVIOUS
    <3> QED
      BY <1>1, <2>2, <3>1
  <2> QED
    BY <1>1, <2>1, <2>3, <2>4, <2>5 DEF ReadInv, ReadOp
<1>7. ASSUME ~collided, NEW r \in Records, Clear(r) PROVE Kept(r)'
  <2>1. ~Changing(r) /\ ~Changing(r)'
    BY <1>2, <1>3, ReadsChangeNothing DEF Reads, Changing
  <2>2. Stored(r)' = Stored(r)
    BY <1>1, StoredSame
  <2>3. Avoids(queue', r)
    BY <1>1, <1>3, ReadsAvoid
  <2> QED
    BY <1>1, <1>7, <2>1, <2>2, <2>3 DEF StoreInv, KeptInv, Kept, Holds, Avoids
<1> QED
  BY <1>1, <1>2, <1>5, <1>6, <1>7 DEF StoreInv, KeptInv

LEMMA CheckKept ==
  ASSUME StoreInv, Check
  PROVE  StoreInv'
<1>1. /\ stage = "check" /\ queue = <<>> /\ got' = <<>>
      /\ UNCHANGED <<mem, EEAR, EEDR, loaded, EEPE, collided>>
  BY DEF Check
<1>2. TypeInv'
  BY CheckTyped DEF StoreInv
<1>3. ~loaded
  BY <1>1 DEF StoreInv, TypeInv, RegistersOK
<1>4. RegisterInv'
  BY <1>1, <1>3 DEF RegisterInv
<1>5. /\ cmd.op \in {"write", "read"} /\ cmd \in Commands /\ (~mixed => Carried(cmd))
      /\ cmd.rec \in Places
  <2>1. /\ cmd.op \in {"write", "read"} /\ cmd \in Commands /\ (~mixed => Carried(cmd))
    BY <1>1 DEF StoreInv, TypeInv, CommandOK
  <2>2. cmd.rec \in Indexes
    BY <2>1 DEF Commands
  <2> QED
    BY <2>1, <2>2, RecordsAre
<1>6. ASSUME ~collided, NEW r \in Records, Clear(r)
      PROVE  Holds(r) /\ Stored(r)' = Stored(r) /\ ~Changing(r)
  <2>1. ~Changing(r)
    BY <1>1 DEF Changing
  <2> QED
    BY <1>1, <1>6, <2>1, StoredSame, KeptHolds
<1>7. CASE stage' = "idle"
  <2>1. cmd' = Idle /\ queue' = <<>> /\ want' = want /\ mixed' = FALSE
    BY <1>1, <1>7 DEF Check
  <2>2. ~Reads' /\ \A r : ~Changing(r)' /\ Avoids(queue', r)
    BY <1>7, <2>1, ElemsEmpty DEF Reads, Changing, Avoids
  <2> QED
    BY <1>1, <1>2, <1>4, <1>6, <2>1, <2>2 DEF StoreInv, KeptInv, Kept, Holds, ReadInv, Avoids
<1>8. CASE cmd.op = "write" /\ stage' = "run"
  <2>1. /\ queue' = WriteRecord(cmd.rec, cmd.val) /\ cmd' = cmd
        /\ want' = IF mixed THEN Doubted(queue') ELSE [want EXCEPT ![cmd.rec] = TORN]
        /\ mixed' = mixed
    BY <1>8 DEF Check
  <2>2. ~mixed => cmd.rec \in Records /\ cmd.val \in Seq(Nat)
    BY <1>5, <1>8, RecordsAre, ValuesTyped DEF Carried
  <2>3. ~Reads'
    BY <1>8, <2>1 DEF Reads
  <2>4. ASSUME ~collided, NEW r \in Records, Clear(r) PROVE Kept(r)'
    <3>0. CASE mixed
      BY <1>6, <2>1, <2>4, <3>0, DoubtedTyped, ReachesAvoids
         DEF StoreInv, Kept, Holds, Avoids, Reaches
    <3>1. Changing(r)' <=> r = cmd.rec
      BY <1>8, <2>1 DEF Changing
    <3>2. CASE ~mixed /\ r = cmd.rec
      <4>1. Fresh(r)' /\ Given(r)' = cmd.val
        BY <1>8, <2>1, <3>2 DEF Fresh, Given
      <4>2. Fills(queue', r, cmd.val)
        BY <2>1, <2>2, <3>2, WriteRecordFills
      <4>3. InHand(r)'
        BY <4>1, <4>2 DEF InHand, Due, Fills, Puts
      <4>4. want'[r] = TORN
        BY <2>1, <3>2 DEF StoreInv, TypeInv, ListsOK
      <4> QED
        BY <2>1, <3>1, <3>2, <4>3, <4>4 DEF Kept
    <3>3. CASE ~mixed /\ r # cmd.rec
      <4>1. Avoids(queue', r)
        BY <2>1, <2>2, <2>4, <3>3, WriteRecordFills
      <4>2. want'[r] = want[r]
        BY <2>1, <3>3 DEF StoreInv, TypeInv, ListsOK
      <4> QED
        BY <1>6, <2>1, <2>4, <3>1, <3>3, <4>1, <4>2 DEF Kept, Holds, Avoids
    <3> QED
      BY <3>0, <3>2, <3>3
  <2> QED
    BY <1>1, <1>2, <1>4, <2>3, <2>4 DEF StoreInv, KeptInv, ReadInv
<1>9. CASE cmd.op = "read" /\ stage' = "run"
  <2>1. queue' = ReadTag(cmd.rec) /\ cmd' = cmd /\ want' = want /\ mixed' = mixed
    BY <1>9 DEF Check
  <2>2. cmd.rec \in Places
    BY <1>5
  <2>3. Source' = cmd.rec
    BY <1>9, <2>1 DEF Source
  <2>4. ReadInv'
    <3>1. /\ Len(queue') = 2 /\ Len(got') = 0
          /\ \A i \in 1..2 : queue'[i] = ReadOp(Source', i)
      BY <1>1, <2>1, <2>2, <2>3, ReadTagOps
    <3>2. \A i \in 1..2 : 0 + i = i
      OBVIOUS
    <3> QED
      BY <3>1, <3>2 DEF ReadInv, ReadOp
  <2>5. \A r : ~Changing(r)' /\ Avoids(queue', r)
    BY <1>9, <2>1, <2>2, ReadsAvoid DEF Changing
  <2> QED
    BY <1>1, <1>2, <1>4, <1>6, <2>1, <2>4, <2>5 DEF StoreInv, KeptInv, Kept, Holds, Avoids
<1> QED
  BY <1>1, <1>5, <1>7, <1>8, <1>9 DEF Check

LEMMA FinishKept ==
  ASSUME StoreInv, Finish
  PROVE  StoreInv'
<1>1. /\ stage = "run" /\ queue = <<>> /\ got' = <<>> /\ stage' = "idle" /\ cmd' = Idle
      /\ want' = IF mixed THEN want ELSE [r \in Records |-> Given(r)]
      /\ mixed' = FALSE /\ UNCHANGED <<mem, EEAR, EEDR, loaded, EEPE, queue, collided>>
  BY DEF Finish
<1>2. TypeInv'
  BY FinishTyped DEF StoreInv
<1>3. ~loaded
  BY <1>1 DEF StoreInv, TypeInv, RegistersOK
<1>4. RegisterInv' /\ ReadInv'
  BY <1>1, <1>3 DEF RegisterInv, ReadInv, Reads
<1>5. ASSUME ~collided, NEW r \in Records, Clear(r) PROVE Kept(r)'
  <2>1. ~Changing(r)' /\ Avoids(queue, r)' /\ (~mixed => want'[r] = Given(r))
    BY <1>1, ElemsEmpty DEF Changing, Avoids
  <2>2. Stored(r)' = Stored(r) /\ Kept(r)
    BY <1>1, <1>5, StoredSame DEF StoreInv, KeptInv
  <2>3. CASE ~mixed /\ Changing(r)
    <3>1. Stored(r) = Given(r)
      BY <1>1, <2>2, <2>3, ChangedHolds DEF Kept, StoreInv
    <3> QED
      BY <1>1, <2>1, <2>2, <2>3, <3>1 DEF Kept, Holds
  <2>4. CASE ~mixed /\ ~Changing(r)
    <3>1. Given(r) = want[r]
      BY <1>1, <2>4 DEF Given, Changing
    <3> QED
      BY <1>1, <2>1, <2>2, <2>4, <3>1 DEF Kept, Holds
  <2>5. CASE mixed
    BY <1>1, <2>1, <2>2, <2>5 DEF Kept, Holds
  <2> QED
    BY <2>3, <2>4, <2>5
<1> QED
  BY <1>1, <1>2, <1>4, <1>5 DEF StoreInv, KeptInv

(* Another packet overwrites fields of the command: a record its accesses   *)
(* may reach from now on is in doubt, and the byte that is loaded stays.    *)
LEMMA OverwriteKept ==
  ASSUME StoreInv, Overwrite
  PROVE  StoreInv'
<1>1. PICK c \in Overlaid : \E q \in Rewritten(c) :
        cmd' = c /\ queue' = q /\ want' = Doubted(q)
  BY DEF Overwrite
<1>2. PICK q \in Rewritten(c) : cmd' = c /\ queue' = q /\ want' = Doubted(q)
  BY <1>1
<1>3. /\ stage # "idle" /\ ~mixed /\ cmd.op \in Overtaken /\ mixed' = TRUE
      /\ UNCHANGED <<mem, EEAR, EEDR, loaded, got, stage, collided>>
  BY DEF Overwrite
<1>4. TypeInv'
  BY OverwriteTyped DEF StoreInv
<1>5. /\ loaded => Head(q) = Head(queue)
      /\ stage = "check" => q = queue
  BY <1>3, RewrittenAre DEF StoreInv
<1>6. c.op = cmd.op
  BY <1>3, OverlaidAre DEF StoreInv, TypeInv, CommandOK
<1>7. RegisterInv'
  BY <1>2, <1>3, <1>5 DEF StoreInv, RegisterInv
<1>8. ReadInv'
  BY <1>2, <1>3, <1>5, <1>6 DEF StoreInv, ReadInv, Reads, Source
<1>9. ASSUME ~collided, NEW r \in Records, Clear(r) PROVE Kept(r)'
  <2>1. want[r] = TORN \/ Stored(r) = want[r]
    BY <1>3, <1>9 DEF StoreInv, KeptInv, Kept, Holds
  <2>2. Stored(r)' = Stored(r)
    BY <1>3, StoredSame
  <2>3. want'[r] = IF Avoids(queue', r) THEN want[r] ELSE TORN
    BY <1>2, DoubtedTyped, ReachesAvoids DEF StoreInv
  <2> QED
    BY <1>3, <2>1, <2>2, <2>3 DEF Kept, Avoids
<1> QED
  BY <1>3, <1>4, <1>7, <1>8, <1>9 DEF StoreInv, KeptInv

LEMMA LoadKept ==
  ASSUME StoreInv, Load
  PROVE  StoreInv'
<1>1. TypeInv'
  BY LoadTyped DEF StoreInv
<1>2. RegisterInv'
  BY DEF Load, RegisterInv
<1>3. UNCHANGED <<mem, queue, got, cmd, stage, mixed, want, collided>>
  BY DEF Load
<1>4. ReadInv'
  BY <1>3 DEF StoreInv, ReadInv, Reads, Source
<1>5. KeptInv'
  BY <1>3 DEF StoreInv, KeptInv, Kept, Holds, Changing, InHand, Fresh, Given, Due, Avoids,
     Agrees, Stored, Bytes
<1> QED
  BY <1>1, <1>2, <1>4, <1>5 DEF StoreInv

(* A byte is read or written: what was due at an address is still due there. *)
LEMMA AccessKept ==
  ASSUME StoreInv, Access
  PROVE  StoreInv'
<1> DEFINE o == Head(queue)
<1>1. /\ loaded /\ loaded' = FALSE /\ queue' = Tail(queue) /\ queue # <<>>
      /\ UNCHANGED <<EEAR, cmd, stage, mixed, want, collided>>
  BY DEF Access, StoreInv, TypeInv, RegistersOK
<1>2. TypeInv'
  BY AccessTyped DEF StoreInv
<1>3. /\ o \in Ops /\ queue' \in Seq(Ops)
      /\ Elems(queue) = {o} \cup Elems(queue')
  BY <1>1, ElemsTail DEF StoreInv, TypeInv, ListsOK
<1>4. RegisterInv'
  BY <1>1 DEF RegisterInv
<1>5. \A r : /\ Changing(r)' <=> Changing(r)
             /\ Fresh(r)' <=> Fresh(r)
             /\ Given(r)' = Given(r)
             /\ Avoids(queue, r) => Avoids(queue', r)
  BY <1>1, <1>3 DEF Changing, Fresh, Given, Avoids
<1>6. /\ queue \in Seq(Ops) /\ got \in Seq(Nat) /\ mem \in [Addresses -> Nat]
      /\ EEAR \in Addresses
  BY DEF StoreInv, TypeInv, ListsOK, RegistersOK
<1>7. Len(queue) \in Nat \ {0} /\ queue[1] = o
  BY <1>1, <1>6, HeadTailProperties, LenProperties, EmptySeq
<1>8. ~collided /\ Reads /\ ~(mixed /\ stage = "run") => o = ReadOp(Source, Len(got) + 1)
  BY <1>7 DEF StoreInv, ReadInv
<1> HIDE DEF o
<1>9. CASE o.op = "write"
  <2> SUFFICES ASSUME ~collided PROVE StoreInv'
    BY <1>1, <1>2, <1>4 DEF StoreInv, KeptInv, ReadInv
  <2>1. mem' = [mem EXCEPT ![o.a] = o.b]
    BY <1>1, <1>9 DEF o, Access, StoreInv, RegisterInv
  <2>2. o.a \in Addresses
    BY <1>3 DEF Ops
  <2>3. ~Reads'
    BY <1>1, <1>3, <1>9 DEF StoreInv, TypeInv, OpsFit, Reads
  <2>4. ASSUME NEW a \in Addresses, NEW b, Due(a, b) PROVE Due(a, b)'
    <3>1. Agrees(queue', a, b)
      BY <1>3, <2>4 DEF Due, Agrees
    <3>2. CASE a = o.a
      BY <1>3, <1>6, <1>9, <2>1, <2>4, <3>1, <3>2 DEF Due, Agrees
    <3>3. CASE a # o.a
      <4>1. mem'[a] = mem[a] /\ Wr(a, b) # o
        BY <1>6, <2>1, <3>3 DEF Wr
      <4> QED
        BY <1>3, <2>4, <3>1, <4>1 DEF Due
    <3> QED
      BY <3>2, <3>3
  <2>5. ASSUME NEW r \in Records, Clear(r) PROVE Kept(r)'
    <3>1. Kept(r)
      BY <2>5 DEF StoreInv, KeptInv
    <3>2. CASE ~mixed /\ Changing(r)
      <4>1. want[r] = TORN /\ InHand(r)
        BY <3>1, <3>2 DEF Kept
      <4>2. CASE Fresh(r)
        <5>1. ASSUME NEW i \in 1..(LenOf(r) + 2)
              PROVE  Due(Tag(r) + i - 1, Image(r, Given(r), i))'
          <6>1. Tag(r) + i - 1 \in Addresses
            BY ImageTyped, EmptySeq
          <6>2. Due(Tag(r) + i - 1, Image(r, Given(r), i))
            BY <4>1, <4>2 DEF InHand
          <6> DEFINE a == Tag(r) + i - 1
                     b == Image(r, Given(r), i)
          <6>3. b' = b
            BY <1>5
          <6> HIDE DEF a, b
          <6>4. Agrees(queue', a, b) /\ (Wr(a, b) \in Elems(queue') \/ mem'[a] = b)
            BY <2>4, <6>1, <6>2 DEF a, b, Due
          <6> QED
            BY <6>3, <6>4 DEF a, b, Due
        <5> QED
          BY <1>1, <1>5, <3>2, <4>1, <4>2, <5>1 DEF Kept, InHand
      <4>3. CASE ~Fresh(r)
        <5>1. Tag(r) \in Addresses
          BY RecordFits DEF Addresses
        <5>2. Due(Tag(r), 0)'
          BY <2>4, <4>1, <4>3, <5>1 DEF InHand
        <5> QED
          BY <1>1, <1>5, <3>2, <4>1, <4>3, <5>2 DEF Kept, InHand
      <4> QED
        BY <4>2, <4>3
    <3>4. CASE mixed /\ want[r] = TORN
      BY <1>1, <3>4 DEF Kept
    <3>3. CASE /\ ~(~mixed /\ Changing(r)) /\ ~(mixed /\ want[r] = TORN)
      <4>1. Avoids(queue, r)
        BY <3>1, <3>3 DEF Kept
      <4>2. o.a \notin Extent(r)
        BY <1>3, <1>9, <4>1 DEF Avoids
      <4>3. \A a \in Extent(r) : mem'[a] = mem[a]
        <5>1. Extent(r) \subseteq Addresses
          BY StoreAssumption DEF Addresses, Places
        <5> QED
          BY <1>6, <2>1, <4>2, <5>1
      <4>4. Stored(r)' = Stored(r)
        BY <4>3, StoredSame
      <4> QED
        BY <1>1, <1>5, <3>1, <3>3, <4>1, <4>4 DEF Kept, Holds
    <3> QED
      BY <3>2, <3>3, <3>4
  <2> QED
    BY <1>2, <1>4, <2>3, <2>5 DEF StoreInv, KeptInv, ReadInv
<1>10. CASE o.op # "write"
  <2>1. mem' = mem /\ got' = Append(got, mem[EEAR])
    BY <1>10 DEF o, Access
  <2>2. Reads
    BY <1>3, <1>10 DEF StoreInv, TypeInv, OpsFit
  <2>3. ASSUME ~collided, NEW r \in Records, Clear(r) PROVE Kept(r)'
    <3>1. Kept(r) /\ ~Changing(r)
      BY <2>2, <2>3, ReadsChangeNothing DEF StoreInv, KeptInv
    <3>2. Stored(r)' = Stored(r)
      BY <2>1, StoredSame
    <3> QED
      BY <1>1, <1>5, <3>1, <3>2 DEF Kept, Holds
  <2>4. ReadInv'
    <3> SUFFICES ASSUME ~collided, ~(mixed /\ stage = "run") PROVE ReadInv'
      BY <1>1 DEF ReadInv
    <3> DEFINE r == Source
               n == Len(got)
               m == Len(queue)
    <3>1. /\ n + m = 2 \/ (n + m = LenOf(r) + 2 /\ n >= 2 /\ got[1] = FLAG)
          /\ \A i \in 1..n : got[i] = mem[Tag(r) + i - 1]
          /\ \A i \in 1..m : queue[i] = ReadOp(r, n + i)
      BY <2>2 DEF StoreInv, ReadInv
    <3>2. Source' = r
      BY <1>1 DEF Source
    <3>3. EEAR = Tag(r) + (n + 1) - 1
      BY <1>1, <1>8, <2>2 DEF o, StoreInv, RegisterInv, ReadOp, Rd
    <3>4. /\ n \in Nat /\ Len(got') = n + 1 /\ \A i \in 1..n : got'[i] = got[i]
          /\ got'[n + 1] = mem[EEAR]
      BY <1>6, <2>1, AppendProperties, LenProperties
    <3>5. /\ m \in Nat \ {0} /\ Len(queue') = m - 1
          /\ \A i \in 1..(m - 1) : queue'[i] = queue[i + 1]
      BY <1>1, <1>6, <1>7, HeadTailProperties
    <3> HIDE DEF r, n, m
    <3>6. \A i \in 1..(n + 1) : got'[i] = mem[Tag(r) + i - 1]
      <4>1. \A i \in 1..(n + 1) : i \in 1..n \/ i = n + 1
        BY <3>4
      <4> QED
        BY <3>1, <3>3, <3>4, <4>1
    <3>7. \A i \in 1..(m - 1) : queue'[i] = ReadOp(r, (n + 1) + i)
      <4>1. \A i \in 1..(m - 1) : i + 1 \in 1..m /\ n + (i + 1) = (n + 1) + i
        BY <3>4, <3>5
      <4> QED
        BY <3>1, <3>5, <4>1
    <3>8. (n + 1) + (m - 1) = n + m
      BY <3>4, <3>5
    <3>9. n >= 2 => n + 1 >= 2 /\ got'[1] = got[1]
      BY <3>4
    <3> QED
      BY <2>1, <3>1, <3>2, <3>4, <3>5, <3>6, <3>7, <3>8, <3>9 DEF ReadInv, ReadOp
  <2> QED
    BY <1>1, <1>2, <1>4, <2>3, <2>4 DEF StoreInv, KeptInv
<1> QED
  BY <1>9, <1>10

(* A loss of power drops the rest of the command; the record whose byte was *)
(* being programmed is in doubt, and no other record has that byte.         *)
LEMMA HardwareKept ==
  ASSUME StoreInv, Programmed \/ GetDescriptor \/ PowerLoss
  PROVE  StoreInv'
<1>0. TypeInv'
  BY HardwareTyped DEF StoreInv
<1>1. CASE Programmed
  <2>1. UNCHANGED <<mem, EEAR, EEDR, loaded, queue, got, cmd, stage, mixed, want, collided>>
    BY <1>1 DEF Programmed
  <2> QED
    BY <1>0, <2>1
       DEF StoreInv, KeptInv, RegisterInv, ReadInv, Reads, Source, Kept, Holds, Changing,
           InHand, Fresh, Given, Due, Avoids, Agrees, Stored, Bytes
<1>2. CASE GetDescriptor
  <2>1. collided' = TRUE
    BY <1>2 DEF GetDescriptor
  <2> QED
    BY <1>0, <2>1 DEF StoreInv, KeptInv, RegisterInv, ReadInv
<1>3. CASE PowerLoss
  <2>1. /\ loaded' = FALSE /\ queue' = <<>> /\ stage' = "idle" /\ collided' = collided
        /\ mixed' = FALSE
    BY <1>3 DEF PowerLoss
  <2>2. RegisterInv' /\ ReadInv'
    BY <2>1 DEF RegisterInv, ReadInv, Reads
  <2>3. ASSUME ~collided, NEW r \in Records, Clear(r) PROVE Kept(r)'
    <3>1. Kept(r) /\ (~Changing(r))' /\ Avoids(queue, r)'
      BY <2>1, <2>3, ElemsEmpty DEF StoreInv, KeptInv, Changing, Avoids
    <3>2. Holds(r)
      BY <3>1 DEF Kept, Holds
    <3>3. CASE UNCHANGED <<mem, want>>
      <4>1. Stored(r)' = Stored(r)
        BY <3>3, StoredSame
      <4> QED
        BY <2>1, <3>1, <3>2, <3>3, <4>1 DEF Kept, Holds
    <3>4. CASE /\ mem' = [mem EXCEPT ![EEAR] = Erased]
               /\ want' = [s \in Records |-> IF EEAR \in Extent(s) THEN TORN ELSE want[s]]
      <4>1. CASE EEAR \in Extent(r)
        BY <2>1, <3>1, <3>4, <4>1 DEF Kept, Holds
      <4>2. CASE EEAR \notin Extent(r)
        <5>1. \A a \in Extent(r) : mem'[a] = mem[a]
          <6>1. Extent(r) \subseteq Addresses
            BY StoreAssumption DEF Addresses, Places
          <6> QED
            BY <3>4, <4>2, <6>1 DEF StoreInv, TypeInv, RegistersOK
        <5>2. Stored(r)' = Stored(r) /\ want'[r] = want[r]
          BY <3>4, <4>2, <5>1, StoredSame
        <5> QED
          BY <2>1, <3>1, <3>2, <5>2 DEF Kept, Holds
      <4> QED
        BY <4>1, <4>2
    <3> QED
      BY <1>3, <3>3, <3>4 DEF PowerLoss
  <2> QED
    BY <1>0, <2>1, <2>2, <2>3 DEF StoreInv, KeptInv
<1> QED
  BY <1>1, <1>2, <1>3

LEMMA NextKept == StoreInv /\ [Next]_vars => StoreInv'
<1> SUFFICES ASSUME StoreInv, [Next]_vars PROVE StoreInv'
  OBVIOUS
<1>1. CASE UNCHANGED vars
  <2>1. TypeInv'
    BY <1>1, NextTyped DEF StoreInv
  <2> QED
    BY <1>1, <2>1
       DEF vars, StoreInv, KeptInv, RegisterInv, ReadInv, Reads, Source, Kept, Holds, Changing,
           InHand, Fresh, Given, Due, Avoids, Agrees, Stored, Bytes
<1> QED
  BY <1>1, WriteCommandKept, ReadCommandKept, TagValidKept, CheckKept, FinishKept,
     OverwriteKept, LoadKept, AccessKept, HardwareKept DEF Next

-----------------------------------------------------------------------------
(* The theorems.                                                            *)

(* Settings and passwords overlap no other record. *)
Apart == \A r \in Fixed : Clear(r)

(* A record that overlaps no other keeps its value. *)
LEMMA ClearKept ==
  ASSUME StoreInv, ~collided, NEW r \in Records, Clear(r), want[r] # TORN
  PROVE  Stored(r) = want[r]
BY DEF StoreInv, KeptInv, Kept, Holds

LEMMA FixedAre == \A r \in Fixed : r \in Records
BY DEF Records

(* Every setting and password keeps the value it was last given, through    *)
(* every other command and every loss of power, wherever the records lie,   *)
(* as long as they lie apart: the slots of the lock may overlap each other. *)
THEOREM RecordsKept ==
  ASSUME Apart
  PROVE  Spec => []SettingsKept
<1>1. StoreInv => SettingsKept
  BY ClearKept, FixedAre DEF Apart, SettingsKept
<1> QED
  BY <1>1, InitKept, NextKept, PTL DEF Spec

(* The layout of the firmware: settings and passwords one behind the other, *)
(* the slots of the lock behind them all.                                   *)
Before(r, s) == Tag(r) + LenOf(r) + 2 <= Tag(s)

InOrder ==
  /\ \A r, s \in Fixed : r # s => Before(r, s) \/ Before(s, r)
  /\ \A r \in Fixed : Tag(r) + LenOf(r) + 2 <= SlotBase

LEMMA BeforeApart ==
  ASSUME NEW r \in Records, NEW s \in Records, Before(r, s) \/ Before(s, r)
  PROVE  Extent(r) \cap Extent(s) = {}
<1>1. /\ Tag(r) \in Nat /\ LenOf(r) \in Nat
      /\ Tag(s) \in Nat /\ LenOf(s) \in Nat
  BY RecordFits
<1> QED
  BY <1>1 DEF Before, Extent

LEMMA SlotsBehind ==
  ASSUME InOrder, NEW r \in Fixed, NEW i \in Slots
  PROVE  Before(r, i)
<1>1. i - 1 \in Nat /\ SlotBase \in Nat /\ SlotStride \in Nat
  BY StoreAssumption DEF Slots
<1>2. (i - 1) * SlotStride \in Nat
  BY <1>1, TimesNat
<1>3. Tag(i) = SlotBase + (i - 1) * SlotStride
  BY DEF Tag
<1>4. Tag(r) \in Nat /\ LenOf(r) \in Nat /\ Tag(r) + LenOf(r) + 2 <= SlotBase
  BY RecordFits DEF InOrder, Records
<1> QED
  BY <1>1, <1>2, <1>3, <1>4 DEF Before

LEMMA InOrderApart == InOrder => Apart
<1> SUFFICES ASSUME InOrder, NEW r \in Fixed, NEW s \in Records, s # r
             PROVE  Extent(r) \cap Extent(s) = {}
  BY DEF Apart, Clear
<1>1. CASE s \in Fixed
  BY <1>1, BeforeApart DEF InOrder, Records
<1>2. CASE s \in Slots
  BY <1>2, SlotsBehind, BeforeApart DEF Records
<1> QED
  BY <1>1, <1>2 DEF Records

(* The same of the layout of the firmware, whose slots overlap: settings    *)
(* and passwords in order, every slot behind them.                          *)
THEOREM LayoutKept ==
  ASSUME InOrder
  PROVE  Spec => []SettingsKept
BY InOrderApart, RecordsKept

(* INFO answers with the value the setting was last given.                  *)
LEMMA InfoStep ==
  ASSUME Apart, StoreInv, [Next]_vars
  PROVE  stage = "run" /\ stage' = "idle" /\ cmd.op = "info" /\ reply'.ok
           /\ ~collided /\ want[cmd.rec] # TORN
         => reply'.value = want[cmd.rec]
<1> SUFFICES ASSUME stage = "run", stage' = "idle", cmd.op = "info", reply'.ok,
                    ~collided, want[cmd.rec] # TORN
             PROVE  reply'.value = want[cmd.rec]
  OBVIOUS
<1>1. Finish
  <2>1. ~PowerLoss
    BY DEF PowerLoss, NoReply
  <2>2. ~(SetRecord \/ RestoreRecord \/ Info \/ InitLock \/ ResetLock \/ WriteStr \/ ReadStr)
    BY DEF SetRecord, RestoreRecord, Info, InitLock, ResetLock, WriteStr, ReadStr, Start
  <2>3. ~(TagValid \/ Check \/ Overwrite \/ Load \/ Access \/ Programmed \/ GetDescriptor) /\ ~UNCHANGED vars
    BY DEF TagValid, Check, Overwrite, Load, Access, Programmed, GetDescriptor, vars
  <2> QED
    BY <2>1, <2>2, <2>3 DEF Next
<1>2. reply'.value = Decode(got) /\ queue = <<>> /\ ~ValueDue
  BY <1>1 DEF Finish
<1>3. Reads /\ Source = cmd.rec /\ cmd.rec \in Settings /\ ~mixed
  BY DEF Reads, Source, StoreInv, TypeInv, CommandOK, Carried
<1>4. Decode(got) = Stored(cmd.rec)
  BY <1>2, <1>3, ReadDone DEF StoreInv
<1>5. cmd.rec \in Fixed
  BY <1>3 DEF Fixed
<1>6. Stored(cmd.rec) = want[cmd.rec]
  BY <1>5, ClearKept, FixedAre DEF Apart
<1> QED
  BY <1>2, <1>4, <1>6

THEOREM ReadsTrue ==
  ASSUME Apart
  PROVE  Spec => ReadsTruth
BY InfoStep, InitKept, NextKept, PTL DEF Spec, ReadsTruth

-----------------------------------------------------------------------------
(* Who may write a string: once a WRITE_STR runs, the write password in     *)
(* force is one it was handed; SET_* and RESTORE_* write into their own     *)
(* record; INIT_LOCK and RESET_LOCK write the passwords and zeros.          *)

Handed == want[WPwd] = TORN \/ want[WPwd] \in presented

Granted(o) ==
  /\ cmd.op \in {"set", "restore"} => o.a \in Extent(cmd.rec)
  /\ cmd.op = "initLock" => o.b = 0 \/ o.a \in Extent(WPwd) \cup Extent(RPwd)
  /\ cmd.op = "resetLock" => o.b = 0

GuardInv ==
  /\ ~Reads => \A o \in Elems(queue) : Granted(o)
  /\ ~collided /\ stage = "run" /\ cmd.op = "write" => Handed

(* The accesses of SET_* and INIT_LOCK, whatever values they carry. *)
LEMMA AccessesGranted ==
  ASSUME cmd \in Commands, NEW c \in Commands, c.op = cmd.op, cmd.op \in {"set", "initLock"},
         cmd.op = "set" => c.rec = cmd.rec, NEW o \in Elems(Accesses(c))
  PROVE  Granted(o)
<1>1. CASE cmd.op = "set"
  <2>1. c.rec \in Settings /\ c.val \in Values
    BY <1>1 DEF Commands
  <2>2. c.rec \in Records /\ c.val \in Seq(Nat)
    BY <2>1, RecordsAre, ValuesTyped
  <2>3. PICK i \in 1..(LenOf(c.rec) + 2) : o = Wr(Tag(c.rec) + i - 1, Image(c.rec, c.val, i))
    BY <1>1, <2>2, WriteRecordOps DEF Accesses
  <2>4. o.a \in Extent(c.rec)
    BY <2>2, <2>3, ImageTyped DEF Wr
  <2> QED
    BY <1>1, <2>4 DEF Granted
<1>2. CASE cmd.op = "initLock"
  <2>1. c.wpwd \in Seq(Nat) /\ c.rpwd \in Seq(Nat)
    BY <1>2, ValuesTyped DEF Commands
  <2>2. o \in Elems(WriteRecord(WPwd, c.wpwd)) \cup Elems(WriteRecord(RPwd, c.rpwd))
                \cup Elems(UntagSlots)
    BY <1>2, <2>1, InitLockOps DEF Accesses
  <2>3. \A r \in {WPwd, RPwd} : \A v \in Seq(Nat) : \A p \in Elems(WriteRecord(r, v)) :
          p.a \in Extent(r)
    BY RecordsAre, WriteRecordOps, ImageTyped DEF Wr
  <2>4. o.b = 0 \/ o.a \in Extent(WPwd) \cup Extent(RPwd)
    BY <2>1, <2>2, <2>3, UntagSlotsFill
  <2> QED
    BY <1>2, <2>4 DEF Granted
<1> QED
  BY <1>1, <1>2

LEMMA StartGuarded ==
  ASSUME TypeInv, SetRecord \/ RestoreRecord \/ InitLock \/ ResetLock
  PROVE  GuardInv'
<1>0. TypeInv'
  BY CommandTyped
<1>1. CASE SetRecord
  <2>1. PICK r \in Settings, v \in Values :
          Start([op |-> "set", rec |-> r, val |-> v], WriteRecord(r, v), "run", {r})
    BY <1>1 DEF SetRecord
  <2>2. /\ cmd' = [op |-> "set", rec |-> r, val |-> v]
        /\ queue' = WriteRecord(r, v) /\ stage' = "run"
    BY <2>1 DEF Start
  <2>3. r \in Records /\ v \in Seq(Nat)
    BY RecordsAre, ValuesTyped
  <2>4. \A o \in Elems(queue') : o.a \in Extent(r)
    BY <2>2, <2>3, WriteRecordOps, ImageTyped DEF Wr
  <2> QED
    BY <2>2, <2>4 DEF GuardInv, Granted
<1>2. CASE RestoreRecord
  <2>1. PICK r \in Settings :
          Start([op |-> "restore", rec |-> r], Untag(r), "run", {r})
    BY <1>2 DEF RestoreRecord
  <2>2. cmd' = [op |-> "restore", rec |-> r] /\ queue' = Untag(r) /\ stage' = "run"
    BY <2>1 DEF Start
  <2>3. \A o \in Elems(queue') : o.a \in Extent(r)
    BY <2>2, RecordsAre, UntagOps DEF Wr
  <2> QED
    BY <2>2, <2>3 DEF GuardInv, Granted
<1>3. CASE InitLock
  <2>1. PICK w \in Values, p \in Values :
          Start([op |-> "initLock", wpwd |-> w, rpwd |-> p], LockRecords(w, p),
                "run", {WPwd, RPwd} \cup Slots)
    BY <1>3 DEF InitLock
  <2> DEFINE c == [op |-> "initLock", wpwd |-> w, rpwd |-> p]
  <2>2. cmd' = c /\ queue' = Accesses(c) /\ stage' = "run" /\ c \in Commands
    BY <2>1 DEF Start, Accesses, Commands
  <2>3. w \in Seq(Nat) /\ p \in Seq(Nat) /\ queue' = LockRecords(w, p)
    BY <2>1, ValuesTyped DEF Start
  <2>4. \A o \in Elems(queue') :
          o \in Elems(WriteRecord(WPwd, w)) \cup Elems(WriteRecord(RPwd, p))
                  \cup Elems(UntagSlots)
    BY <2>3, InitLockOps
  <2>5. \A r \in {WPwd, RPwd} : \A v \in Seq(Nat) : \A o \in Elems(WriteRecord(r, v)) :
          o.a \in Extent(r)
    BY RecordsAre, WriteRecordOps, ImageTyped DEF Wr
  <2>6. \A o \in Elems(queue') : o.b = 0 \/ o.a \in Extent(WPwd) \cup Extent(RPwd)
    BY <2>3, <2>4, <2>5, UntagSlotsFill
  <2> QED
    BY <2>2, <2>6 DEF GuardInv, Granted
<1>4. CASE ResetLock
  <2> DEFINE ops == Untag(WPwd) \o Untag(RPwd) \o UntagSlots
  <2>1. Start([op |-> "resetLock"], ops, "run", {WPwd, RPwd} \cup Slots)
    BY <1>4 DEF ResetLock
  <2>2. cmd' = [op |-> "resetLock"] /\ queue' = ops /\ stage' = "run"
    BY <2>1 DEF Start
  <2>3. Elems(ops) = Elems(Untag(WPwd)) \cup Elems(Untag(RPwd)) \cup Elems(UntagSlots)
    BY ResetLockOps
  <2>4. \A r \in {WPwd, RPwd} : \A o \in Elems(Untag(r)) : o.b = 0
    BY RecordsAre, UntagOps DEF Wr
  <2>5. \A o \in Elems(queue') : o.b = 0
    BY <2>2, <2>3, <2>4, UntagSlotsFill
  <2> QED
    BY <2>2, <2>5 DEF GuardInv, Granted
<1> QED
  BY <1>1, <1>2, <1>3, <1>4

(* WRITE_STR goes on only if the password in rawhidreadData is the stored   *)
(* one, which is the one in force: no record reaches into it.               *)
LEMMA CheckGuarded ==
  ASSUME Apart, StoreInv, Check
  PROVE  GuardInv'
<1>1. /\ stage = "check" /\ queue = <<>> /\ ~ValueDue /\ UNCHANGED collided
      /\ cmd.op \in {"write", "read"} /\ Reads
  BY DEF Check, Reads, StoreInv, TypeInv, CommandOK
<1>2. CASE stage' = "idle"
  BY <1>2, ElemsEmpty, <1>1 DEF Check, GuardInv
<1>3. CASE cmd.op = "write" /\ stage' = "run"
  <2>1. /\ cmd' = cmd /\ presented' = presented /\ Decode(got) = cmd.pwd
        /\ want' = IF mixed THEN Doubted(queue') ELSE [want EXCEPT ![cmd.rec] = TORN]
    BY <1>3 DEF Check, Refused
  <2>2. ASSUME ~collided PROVE Handed'
    <3>1. cmd.pwd \in presented
      BY <1>1, <1>3 DEF StoreInv, TypeInv, CommandOK
    <3>2. Source = WPwd
      BY <1>1, <1>3 DEF Source
    <3>3. Decode(got) = Stored(WPwd)
      BY <1>1, <2>2, <3>2, ReadDone DEF StoreInv
    <3>4. Clear(WPwd) /\ WPwd \in Records
      BY RecordsAre DEF Apart, Fixed
    <3>5. want[WPwd] # TORN => want[WPwd] \in presented
      BY <2>1, <2>2, <3>1, <3>3, <3>4, ClearKept
    <3>6. want'[WPwd] = TORN \/ want'[WPwd] = want[WPwd]
      BY <2>1, <3>4, DoubtedTyped DEF StoreInv, TypeInv, ListsOK
    <3> QED
      BY <2>1, <3>5, <3>6 DEF Handed
  <2> QED
    BY <1>1, <1>3, <2>1, <2>2 DEF GuardInv, Granted
<1>4. CASE cmd.op = "read" /\ stage' = "run"
  BY <1>4 DEF Check, GuardInv, Reads
<1> QED
  BY <1>1, <1>2, <1>3, <1>4 DEF Check

LEMMA OverwriteGuarded ==
  ASSUME TypeInv, GuardInv, Overwrite
  PROVE  GuardInv'
<1>1. PICK c \in Overlaid : \E q \in Rewritten(c) :
        /\ cmd' = c /\ queue' = q
        /\ presented' = IF c.op = "write" THEN presented \cup {c.pwd} ELSE presented
        /\ want' = Doubted(q)
  BY DEF Overwrite
<1>2. PICK q \in Rewritten(c) :
        /\ cmd' = c /\ queue' = q
        /\ presented' = IF c.op = "write" THEN presented \cup {c.pwd} ELSE presented
        /\ want' = Doubted(q)
  BY <1>1
<1>3. /\ stage # "idle" /\ ~mixed /\ cmd.op \in Overtaken /\ cmd \in Commands
      /\ stage' = stage /\ collided' = collided
  BY DEF Overwrite, TypeInv, CommandOK
<1>4. /\ c \in Commands /\ c.op = cmd.op /\ c.op \in {"set", "initLock", "write", "read"}
      /\ cmd.op = "set" => c.rec = cmd.rec
  BY <1>3, OverlaidAre
<1>5. stage = "run" /\ cmd.op \in {"set", "initLock"}
        => Elems(q) \subseteq Elems(queue) \cup Elems(Accesses(c))
  BY <1>3, RewrittenAre
<1>6. ASSUME ~Reads', NEW o \in Elems(queue') PROVE Granted(o)'
  <2>1. stage = "run" /\ ~Reads
    BY <1>2, <1>3, <1>4, <1>6 DEF Reads, TypeInv, CommandOK
  <2>2. CASE cmd.op = "write"
    BY <1>2, <1>4, <2>2 DEF Granted
  <2>3. CASE cmd.op \in {"set", "initLock"}
    <3>1. Granted(o)
      BY <1>2, <1>3, <1>4, <1>5, <1>6, <2>1, <2>3, AccessesGranted DEF GuardInv
    <3> QED
      BY <1>2, <1>4, <2>3, <3>1 DEF Granted
  <2> QED
    BY <1>4, <2>1, <2>2, <2>3 DEF Reads
<1>7. ASSUME ~collided', stage' = "run", cmd'.op = "write" PROVE Handed'
  <2>1. Handed
    BY <1>2, <1>3, <1>4, <1>7 DEF GuardInv
  <2>2. want'[WPwd] = TORN \/ want'[WPwd] = want[WPwd]
    BY <1>2, DoubtedTyped, RecordsAre
  <2>3. presented \subseteq presented'
    BY <1>2
  <2> QED
    BY <2>1, <2>2, <2>3 DEF Handed
<1> QED
  BY <1>6, <1>7 DEF GuardInv

LEMMA InitGuarded == Init => GuardInv
BY ElemsEmpty DEF Init, GuardInv

LEMMA NextGuarded == Apart /\ StoreInv /\ GuardInv /\ [Next]_vars => GuardInv'
<1> SUFFICES ASSUME Apart, StoreInv, GuardInv, [Next]_vars PROVE GuardInv'
  OBVIOUS
<1>0. TypeInv
  BY DEF StoreInv
<1>1. CASE SetRecord \/ RestoreRecord \/ InitLock \/ ResetLock
  BY <1>0, <1>1, StartGuarded
<1>2. CASE Info \/ WriteStr \/ ReadStr
  BY <1>2 DEF Info, WriteStr, ReadStr, Start, GuardInv, Reads
<1>3. CASE TagValid
  BY <1>0, <1>3, TagValidTyped DEF TagValid, GuardInv, Reads, Handed
<1>4. CASE Check
  BY <1>4, CheckGuarded
<1>5. CASE Overwrite
  BY <1>0, <1>5, OverwriteGuarded
<1>6. CASE Access
  <2>1. /\ queue' = Tail(queue) /\ queue # <<>>
        /\ UNCHANGED <<cmd, stage, presented, want, collided>>
    BY <1>0, <1>6 DEF Access, TypeInv, RegistersOK
  <2>2. Elems(queue') \subseteq Elems(queue)
    BY <1>0, <2>1, ElemsTail DEF TypeInv, ListsOK
  <2> QED
    BY <2>1, <2>2 DEF GuardInv, Granted, Handed, Reads
<1>7. CASE Load \/ Programmed \/ UNCHANGED vars
  BY <1>7 DEF Load, Programmed, vars, GuardInv, Granted, Handed, Reads
<1>8. CASE GetDescriptor
  BY <1>8 DEF GetDescriptor, GuardInv, Granted, Reads
<1>9. CASE PowerLoss \/ Finish
  BY <1>9, ElemsEmpty DEF PowerLoss, Finish, GuardInv
<1> QED
  BY <1>1, <1>2, <1>3, <1>4, <1>5, <1>6, <1>7, <1>8, <1>9 DEF Next

(* A byte of a string changes only by a write the main loop had loaded.     *)
LEMMA GuardStep ==
  ASSUME Apart, StoreInv, GuardInv, [Next]_vars, NEW i \in Slots, NEW a \in Extent(i),
         loaded, mem'[a] # mem[a], ~collided
  PROVE  \/ cmd.op = "write" /\ Handed
         \/ cmd.op \in {"initLock", "resetLock"} /\ mem'[a] = 0
<1> DEFINE o == Head(queue)
<1>1. Access /\ o.op = "write"
  <2>1. ~(SetRecord \/ RestoreRecord \/ Info \/ InitLock \/ ResetLock \/ WriteStr \/ ReadStr)
    BY DEF SetRecord, RestoreRecord, Info, InitLock, ResetLock, WriteStr, ReadStr, Start
  <2>2. ~(TagValid \/ Check \/ Finish \/ Overwrite \/ Load \/ Programmed \/ GetDescriptor)
        /\ ~UNCHANGED vars
    BY DEF TagValid, Check, Finish, Overwrite, Load, Programmed, GetDescriptor, vars
  <2>3. ~PowerLoss
    BY DEF PowerLoss, StoreInv, TypeInv, RegistersOK
  <2> QED
    BY <2>1, <2>2, <2>3 DEF Next, Access
<1>2. /\ queue # <<>> /\ o \in Ops /\ o \in Elems(queue)
      /\ stage # "idle" /\ cmd \in Commands
  <2>1. queue # <<>> /\ queue \in Seq(Ops)
    BY DEF StoreInv, TypeInv, RegistersOK, ListsOK
  <2>2. stage # "idle" /\ cmd \in Commands
    BY <2>1 DEF StoreInv, TypeInv, ListsOK, CommandOK
  <2> QED
    BY <2>1, <2>2, ElemsTail
<1>3. mem' = [mem EXCEPT ![o.a] = o.b]
  BY <1>1 DEF Access, StoreInv, RegisterInv
<1>4. a \in Addresses /\ i \in Records
  <2>1. i \in Places /\ i \in Records
    BY RecordsAre
  <2> QED
    BY <2>1, StoreAssumption DEF Addresses
<1>5. a = o.a /\ mem'[a] = o.b
  BY <1>3, <1>4 DEF StoreInv, TypeInv, RegistersOK
<1>6. ~Reads
  BY <1>1, <1>2 DEF StoreInv, TypeInv, OpsFit
<1>7. stage = "run" /\ cmd.op \notin {"info", "read"}
  BY <1>2, <1>6 DEF Reads, StoreInv, TypeInv, CommandOK
<1>8. Granted(o)
  BY <1>2, <1>6 DEF GuardInv
<1> HIDE DEF o
<1>9. \A r \in Fixed : a \notin Extent(r)
  BY <1>4, RecordsDiffer DEF Apart, Clear, Fixed
<1>10. cmd.op \notin {"set", "restore"}
  <2> SUFFICES ASSUME cmd.op \in {"set", "restore"} PROVE FALSE
    OBVIOUS
  <2>1. cmd.rec \in Fixed
    BY <1>2 DEF Commands, Fixed
  <2> QED
    BY <1>5, <1>8, <1>9, <2>1 DEF Granted
<1>11. cmd.op = "initLock" => o.b = 0
  BY <1>5, <1>8, <1>9 DEF Granted, Fixed
<1>12. cmd.op = "resetLock" => o.b = 0
  BY <1>8 DEF Granted
<1>13. cmd.op = "write" => Handed
  BY <1>7 DEF GuardInv
<1>14. cmd.op \in {"initLock", "resetLock", "write"}
  BY <1>2, <1>7, <1>10 DEF Commands
<1> QED
  BY <1>5, <1>11, <1>12, <1>13, <1>14

(* No byte of a string changes but by a WRITE_STR that was handed the       *)
(* password in force while it ran, or by INIT_LOCK or RESET_LOCK, which     *)
(* write zeros: also when packets overwrite the command, when an index is   *)
(* out of range and after any loss of power.                                *)
THEOREM StringsStayGuarded ==
  ASSUME Apart
  PROVE  Spec => StringsGuarded
<1>1. StoreInv /\ GuardInv /\ [Next]_vars
        => \A i \in Slots : \A a \in Extent(i) :
             loaded /\ mem'[a] # mem[a] /\ ~collided =>
               \/ cmd.op = "write" /\ (want[WPwd] = TORN \/ want[WPwd] \in presented)
               \/ cmd.op \in {"initLock", "resetLock"} /\ mem'[a] = 0
  BY GuardStep DEF Handed
<1>2. Init => StoreInv /\ GuardInv
  BY InitKept, InitGuarded
<1>3. StoreInv /\ GuardInv /\ [Next]_vars => (StoreInv /\ GuardInv)'
  BY NextKept, NextGuarded
<1> QED
  BY <1>1, <1>2, <1>3, PTL DEF Spec, StringsGuarded

=============================================================================
