-------------------------- MODULE MouseReportProofs --------------------------
(***************************************************************************)
(* Proofs about MouseReport, for any set of buttons, screen, ranges of the *)
(* axes, pointer speeds and numbers of banks.                              *)
(***************************************************************************)
EXTENDS MouseReport, SequenceTheorems, TLAPS

Axes == (0..AMax) \X (0..AMax)

Ops ==
  [op : {"press", "release", "hold", "releaseAll", "reply"}, b : SUBSET Buttons, d : {Here}]
    \cup [op : {"move"}, b : {{}}, d : Reach] \cup [op : {"moveTo"}, b : {{}}, d : Axes]

OnWire ==
  [dev : {"Mouse"}, b : SUBSET Buttons, d : Reach]
    \cup [dev : {"AbsoluteMouse"}, b : {{}}, d : Axes]

-----------------------------------------------------------------------------
(* The half of the device: buttons, commands, reports. *)

DeviceOK ==
  /\ buttons \subseteq Buttons /\ held \subseteq Buttons
  /\ todo \in Seq(Ops)
  /\ wire \in Seq(OnWire) /\ Len(wire) <= Banks
  /\ configured \in BOOLEAN /\ sent \in BOOLEAN

(* The half of MoveTo: the pointer, the goal, the rounds. *)

PlaceOK ==
  /\ pointer \in Positions
  /\ at \in Places /\ goal \in IF at = "idle" THEN {NoGoal} ELSE Goals
  /\ due \in Goals \cup {NoGoal}

RoundOK ==
  /\ step \in Distances
  /\ count \in Nat /\ (at = "move" => count > 0)
  /\ ccount \in 0..3 /\ err_count \in Nat /\ ret \in {-1, 0} /\ bulk \in BOOLEAN

MoverOK == PlaceOK /\ RoundOK

TypeInv == DeviceOK /\ MoverOK

LEMMA Constrained ==
  ASSUME NEW n \in Int, NEW lo \in Int, NEW hi \in Int, lo <= hi
  PROVE  constrain(n, lo, hi) \in lo..hi
BY DEF constrain

LEMMA ConstantsTyped ==
  /\ Width \in Nat \ {0} /\ Height \in Nat \ {0} /\ PIXEL \in Nat \ {0} /\ PIXEL <= RMax
  /\ RMax \in Nat /\ AMax \in Nat /\ Gains \subseteq Nat /\ Banks \in Nat \ {0}
  /\ \A p \in Goals : p[1] \in 0..(Width - 1) /\ p[2] \in 0..(Height - 1)
  /\ Here[1] = 0 /\ Here[2] = 0
<1>1. \A p \in Goals : p \in (0..(Width - 1)) \X (0..(Height - 1))
  BY MouseAssumption
<1> QED
  BY <1>1, MouseAssumption DEF Here

LEMMA HereTyped == Here \in Reach /\ Here \in Distances /\ Here \in Positions
<1>1. 0 \in (-RMax)..RMax /\ 0 \in (-Width)..Width /\ 0 \in (-Height)..Height
      /\ 0 \in 0..(Width - 1) /\ 0 \in 0..(Height - 1)
  BY ConstantsTyped
<1> QED
  BY <1>1 DEF Here, Reach, Distances, Positions

(* An operation that carries no distance. *)
LEMMA OpTyped ==
  ASSUME NEW o \in {"press", "release", "hold", "releaseAll", "reply"}, NEW b \in SUBSET Buttons
  PROVE  Op(o, b, Here) \in Ops
BY DEF Op, Ops

LEMMA MoveTyped ==
  ASSUME NEW d, d[1] \in Int, d[2] \in Int
  PROVE  MoveToR(d) \in Seq(Ops)
<1> DEFINE c == <<constrain(d[1], -RMax, RMax), constrain(d[2], -RMax, RMax)>>
<1>1. -RMax \in Int /\ RMax \in Int /\ -RMax <= RMax
  BY ConstantsTyped
<1>2. constrain(d[1], -RMax, RMax) \in (-RMax)..RMax /\ constrain(d[2], -RMax, RMax) \in (-RMax)..RMax
  BY <1>1, Constrained
<1>3. c \in Reach
  BY <1>2 DEF Reach
<1> HIDE DEF c
<1>4. Op("move", {}, c) \in Ops
  BY <1>3 DEF Op, Ops
<1> QED
  BY <1>4 DEF MoveToR, c

LEMMA UnitTyped ==
  ASSUME NEW n \in Nat, NEW size \in Nat \ {0}, NEW offset \in Nat
  PROVE  Unit(n, size, offset) \in 0..AMax
<1>1. AMax \in Nat /\ AMax * n \in Int
  BY ConstantsTyped
<1>2. (AMax * n) \div size \in Int
  BY <1>1
<1>3. (AMax * n) \div size + offset \in Int /\ 0 <= AMax
  BY <1>1, <1>2
<1> QED
  BY <1>1, <1>3, Constrained DEF Unit

LEMMA MoveToTyped ==
  ASSUME NEW p \in Goals PROVE MoveToA(p) \in Seq(Ops)
<1>1. p[1] \in Nat /\ p[2] \in Nat /\ Width \in Nat \ {0} /\ Height \in Nat \ {0}
  BY ConstantsTyped
<1>2. Unit(p[1], Width, 1) \in 0..AMax /\ Unit(p[2], Height, 2) \in 0..AMax
  BY <1>1, UnitTyped
<1>3. Units(p) \in Axes
  BY <1>2 DEF Units, Axes
<1>4. Op("moveTo", {}, Units(p)) \in Ops
  BY <1>3 DEF Op, Ops
<1> QED
  BY <1>4 DEF MoveToA

(* The pixel that units of the absolute axes fall on is on the screen.      *)
LEMMA PixelOn ==
  ASSUME NEW u \in 0..AMax, NEW size \in Nat \ {0}
  PROVE  (u * size) \div (AMax + 1) \in 0..(size - 1)
<1>1. AMax \in Nat
  BY ConstantsTyped
<1> DEFINE a == AMax + 1
           n == u * size
           q == n \div a
<1>2. a \in Nat \ {0} /\ u \in Nat /\ u <= a - 1
  BY <1>1
<1>3. n \in Nat
  BY <1>2
<1>4. n < a * size
  <2>1. n <= (a - 1) * size
    BY <1>2
  <2>2. (a - 1) * size = a * size - size /\ a * size \in Int
    BY <1>2
  <2> QED
    BY <1>3, <2>1, <2>2
<1> HIDE DEF n
<1>5. q \in Nat /\ a * q <= n
  BY <1>2, <1>3
<1> HIDE DEF q, a
<1>6. a * q < a * size /\ a * q \in Int /\ a * size \in Int
  BY <1>2, <1>3, <1>4, <1>5
<1>7. q < size
  <2> SUFFICES ASSUME ~(q < size) PROVE FALSE
    OBVIOUS
  <2>1. size <= q
    BY <1>5
  <2>2. a * size <= a * q
    BY <1>2, <1>5, <2>1
  <2> QED
    BY <1>6, <2>2
<1> QED
  BY <1>5, <1>7 DEF q, n, a

LEMMA OnScreen ==
  ASSUME NEW n \in Int, NEW size \in Nat \ {0}
  PROVE  constrain(n, 0, size - 1) \in 0..(size - 1)
BY DEF constrain

LEMMA PosTyped ==
  ASSUME NEW p, p[1] \in Int, p[2] \in Int
  PROVE  Pos(p) \in Positions
<1>1. Width \in Nat \ {0} /\ Height \in Nat \ {0}
  BY ConstantsTyped
<1>2. /\ constrain(p[1], 0, Width - 1) \in 0..(Width - 1)
      /\ constrain(p[2], 0, Height - 1) \in 0..(Height - 1)
  BY <1>1, OnScreen
<1> QED
  BY <1>2 DEF Pos, Positions

(* How far the pointer is from the goal, and what MoveTo makes of it.       *)
LEMMA OffsetTyped ==
  ASSUME MoverOK, at # "idle"
  PROVE  xo \in (-Width)..Width /\ yo \in (-Height)..Height
<1>1. /\ pointer[1] \in 0..(Width - 1) /\ pointer[2] \in 0..(Height - 1)
      /\ goal[1] \in 0..(Width - 1) /\ goal[2] \in 0..(Height - 1)
  BY ConstantsTyped DEF MoverOK, PlaceOK, RoundOK, Positions
<1>2. Width \in Nat /\ Height \in Nat
  BY ConstantsTyped
<1> QED
  BY <1>1, <1>2 DEF xo, yo

LEMMA AbsTyped ==
  ASSUME NEW n \in Nat, NEW o \in (-n)..n
  PROVE  Abs(o) \in 0..n /\ (\A k \in 0..n : Signed(k, o) \in (-n)..n)
BY DEF Abs, Signed

LEMMA Share ==
  ASSUME NEW n \in Nat, NEW a \in 0..n, NEW c \in Nat \ {0}
  PROVE  a \div c \in 0..n
<1> DEFINE q == a \div c
<1>1. q \in Nat /\ c * q <= a
  OBVIOUS
<1> HIDE DEF q
<1>2. q <= c * q
  BY <1>1
<1>3. q <= a
  BY <1>1, <1>2
<1> QED
  BY <1>1, <1>3 DEF q

LEMMA StepTyped ==
  ASSUME MoverOK, at # "idle", ~Near
  PROVE  Calls \in Nat \ {0} /\ StepTo \in Distances
<1>1. xo \in (-Width)..Width /\ yo \in (-Height)..Height
  BY OffsetTyped
<1>2. Width \in Nat /\ Height \in Nat /\ PIXEL \in Nat \ {0}
  BY ConstantsTyped
<1>3. Abs(xo) \in 0..Width /\ Abs(yo) \in 0..Height
  BY <1>1, <1>2, AbsTyped
<1>4. Major \in Nat /\ Major > PIXEL
  BY <1>2, <1>3 DEF Near, Major
<1>5. Calls \in Nat \ {0}
  <2> DEFINE q == Major \div PIXEL
             r == Major % PIXEL
  <2>1. q \in Nat /\ r \in 0..(PIXEL - 1) /\ Major = PIXEL * q + r
    BY <1>2, <1>4
  <2> HIDE DEF q, r
  <2>2. q # 0
    BY <1>2, <1>4, <2>1
  <2> QED
    BY <2>1, <2>2 DEF Calls, q
<1>6. CASE Abs(xo) > Abs(yo)
  <2>1. PIXEL \in 0..Width
    BY <1>2, <1>3, <1>4, <1>6 DEF Major
  <2>2. Abs(yo) \div Calls \in 0..Height
    BY <1>2, <1>3, <1>5, Share
  <2>3. Signed(PIXEL, xo) \in (-Width)..Width /\ Signed(Abs(yo) \div Calls, yo) \in (-Height)..Height
    BY <1>1, <1>2, <2>1, <2>2, AbsTyped
  <2> QED
    BY <1>5, <1>6, <2>3 DEF StepTo, Distances
<1>7. CASE ~(Abs(xo) > Abs(yo))
  <2>1. PIXEL \in 0..Height
    BY <1>2, <1>3, <1>4, <1>7 DEF Major
  <2>2. Abs(xo) \div Calls \in 0..Width
    BY <1>2, <1>3, <1>5, Share
  <2>3. Signed(Abs(xo) \div Calls, xo) \in (-Width)..Width /\ Signed(PIXEL, yo) \in (-Height)..Height
    BY <1>1, <1>2, <2>1, <2>2, AbsTyped
  <2> QED
    BY <1>5, <1>7, <2>3 DEF StepTo, Distances
<1> QED
  BY <1>6, <1>7

(* The locals of MoveTo at its start, and when it has returned.             *)
LEMMA RoundStarts ==
  /\ /\ step = Here /\ count = 0 /\ bulk = FALSE /\ ccount = 0 /\ err_count = 0 /\ ret = 0
     /\ at # "move"
     => RoundOK
  /\ /\ step' = Here /\ count' = 0 /\ bulk' = FALSE /\ ccount' = 0 /\ err_count' = 0 /\ ret' = 0
     /\ at' # "move"
     => RoundOK'
<1>1. 0 \in Nat /\ 0 \in 0..3 /\ 0 \in {-1, 0} /\ Here \in Distances
  BY HereTyped
<1> QED
  BY <1>1, Zenon DEF RoundOK

LEMMA BeginTyped ==
  ASSUME TypeInv, NEW ops \in Seq(Ops), Begin(ops), due' \in Goals \cup {NoGoal}
  PROVE  TypeInv'
BY DEF Begin, TypeInv, DeviceOK, MoverOK, PlaceOK, RoundOK, moveVars

LEMMA SingleTyped ==
  ASSUME NEW o \in Ops PROVE <<o>> \in Seq(Ops)
OBVIOUS

LEMMA PairTyped ==
  ASSUME NEW o \in Ops, NEW p \in Ops PROVE <<o, p>> \in Seq(Ops)
OBVIOUS

LEMMA ButtonTyped ==
  ASSUME TypeInv, ButtonCommand
  PROVE  TypeInv'
<1>1. due' \in Goals \cup {NoGoal}
  BY DEF ButtonCommand, TypeInv, MoverOK, PlaceOK, RoundOK
<1>2. ASSUME NEW b \in Buttons
      PROVE  Press(b) \in Seq(Ops) /\ Release(b) \in Seq(Ops) /\ Click(b) \in Seq(Ops)
             /\ Click(b) \o Click(b) \in Seq(Ops)
  <2>1. /\ Op("press", {b}, Here) \in Ops /\ Op("release", {b}, Here) \in Ops
        /\ Op("hold", {b}, Here) \in Ops /\ Op("hold", {}, Here) \in Ops
    BY OpTyped
  <2>2. Press(b) \in Seq(Ops) /\ Release(b) \in Seq(Ops) /\ Click(b) \in Seq(Ops)
    BY <2>1, SingleTyped, PairTyped DEF Press, Release, Click
  <2> QED
    BY <2>2, ConcatProperties
<1>3. <<Op("releaseAll", {}, Here)>> \in Seq(Ops)
  <2>1. Op("releaseAll", {}, Here) \in Ops
    BY OpTyped
  <2> QED
    BY <2>1, SingleTyped
<1> QED
  BY <1>1, <1>2, <1>3, BeginTyped DEF ButtonCommand

LEMMA MoveCommandTyped ==
  ASSUME TypeInv, MoveCommand
  PROVE  TypeInv'
<1>1. due' \in Goals \cup {NoGoal}
  BY DEF MoveCommand
<1>2. ASSUME NEW d \in {-RMax - 1, RMax + 1} PROVE MoveToR(<<d, d>>) \in Seq(Ops)
  <2>1. d \in Int
    BY <1>2, ConstantsTyped
  <2> QED
    BY <2>1, MoveTyped
<1>3. MoveToR(Here) \in Seq(Ops)
  BY MoveTyped, ConstantsTyped
<1> QED
  BY <1>1, <1>2, <1>3, MoveToTyped, BeginTyped DEF MoveCommand

(* A report goes into the endpoint, or does not. *)
LEMMA ReportTyped ==
  ASSUME DeviceOK, NEW b \in SUBSET Buttons, NEW d \in Reach, SendReport(b, d)
  PROVE  /\ wire' \in Seq(OnWire) /\ Len(wire') <= Banks /\ sent' \in BOOLEAN
         /\ sent' => wire' = Append(wire, Report(b, d))
<1>1. Banks \in Nat /\ Len(wire) \in Nat /\ wire \in Seq(OnWire) /\ Len(wire) <= Banks
  BY ConstantsTyped, LenProperties DEF DeviceOK
<1>2. CASE BankFree /\ wire' = Append(wire, Report(b, d)) /\ sent' = TRUE
  <2>1. Report(b, d) \in OnWire
    BY DEF Report, OnWire
  <2>2. wire' \in Seq(OnWire) /\ Len(wire') = Len(wire) + 1
    BY <1>1, <1>2, <2>1, AppendProperties
  <2>3. Len(wire) < Banks
    BY <1>2 DEF BankFree
  <2> QED
    BY <1>1, <1>2, <2>2, <2>3
<1>3. CASE ~BankFree /\ sent' = FALSE /\ UNCHANGED wire
  BY <1>1, <1>3
<1> QED
  BY <1>2, <1>3 DEF SendReport

LEMMA HeadOp ==
  ASSUME DeviceOK, todo # <<>>
  PROVE  /\ Tail(todo) \in Seq(Ops) /\ Head(todo) \in Ops
         /\ Len(todo) \in Nat \ {0} /\ Len(Tail(todo)) = Len(todo) - 1
BY HeadTailProperties, EmptySeq DEF DeviceOK

LEMMA OperationTyped ==
  ASSUME TypeInv, Operation
  PROVE  TypeInv'
<1>1. /\ todo' = Tail(todo) /\ UNCHANGED <<configured, pointer, held>>
      /\ Tail(todo) \in Seq(Ops) /\ Head(todo) \in Ops
  BY HeadOp DEF TypeInv, Operation, DoPress, DoRelease, DoHold, DoReleaseAll, DoMove, DoMoveTo,
                DoReply, Do
<1>2. ASSUME NEW b \in SUBSET Buttons, NEW d \in Reach, buttons' = b, SendReport(b, d),
             UNCHANGED <<at, moveVars, due>>
      PROVE  TypeInv'
  BY <1>1, <1>2, ReportTyped DEF TypeInv, DeviceOK, MoverOK, PlaceOK, RoundOK, moveVars
<1>3. ASSUME NEW b \in SUBSET Buttons, Set(b), UNCHANGED <<at, moveVars, due>>
      PROVE  TypeInv'
  <2>1. CASE b # buttons
    BY <1>2, <1>3, <2>1, HereTyped DEF Set
  <2>2. CASE b = buttons
    BY <1>1, <1>3, <2>2 DEF Set, TypeInv, DeviceOK, MoverOK, PlaceOK, RoundOK, moveVars
  <2> QED
    BY <2>1, <2>2
<1>4. Head(todo).b \in SUBSET Buttons
  BY <1>1 DEF Ops
<1>5. CASE DoPress
  <2>1. buttons \cup Head(todo).b \in SUBSET Buttons
    BY <1>4 DEF TypeInv, DeviceOK
  <2> QED
    BY <1>3, <1>5, <2>1 DEF DoPress, Do
<1>6. CASE DoRelease
  <2>1. buttons \ Head(todo).b \in SUBSET Buttons
    BY <1>4 DEF TypeInv, DeviceOK
  <2> QED
    BY <1>3, <1>6, <2>1 DEF DoRelease, Do
<1>7. CASE DoHold
  BY <1>2, <1>4, <1>7, HereTyped DEF DoHold, Do
<1>8. CASE DoReleaseAll
  BY <1>2, <1>8, HereTyped DEF DoReleaseAll, Do
<1>9. CASE DoMove
  <2>1. Head(todo).op = "move" /\ SendReport(buttons, Head(todo).d)
        /\ UNCHANGED <<buttons, at, moveVars, due>>
    BY <1>9 DEF DoMove, Do
  <2>2. Head(todo).d \in Reach /\ buttons \in SUBSET Buttons
    BY <1>1, <2>1 DEF Ops, TypeInv, DeviceOK
  <2> QED
    BY <1>2, <2>1, <2>2
<1>10. CASE DoMoveTo
  <2>1. /\ Head(todo).op = "moveTo" /\ UNCHANGED <<buttons, sent, at, moveVars>>
        /\ \/ ~BankFree /\ UNCHANGED wire /\ due' = NoGoal
           \/ /\ BankFree
              /\ wire' = Append(wire, [dev |-> "AbsoluteMouse", b |-> {}, d |-> Head(todo).d])
              /\ due' = IF at = "last" THEN goal ELSE NoGoal
    BY <1>10 DEF DoMoveTo, Do
  <2> DEFINE r == [dev |-> "AbsoluteMouse", b |-> {}, d |-> Head(todo).d]
  <2>2. r \in OnWire
    <3>1. Head(todo).d \in Axes
      BY <1>1, <2>1 DEF Ops
    <3> QED
      BY <3>1 DEF OnWire
  <2>3. due' \in Goals \cup {NoGoal}
    BY <2>1 DEF TypeInv, MoverOK, PlaceOK, RoundOK
  <2>4. wire' \in Seq(OnWire) /\ Len(wire') <= Banks
    <3>1. wire \in Seq(OnWire) /\ Len(wire) \in Nat /\ Len(wire) <= Banks /\ Banks \in Nat
      BY ConstantsTyped, LenProperties DEF TypeInv, DeviceOK
    <3>2. Append(wire, r) \in Seq(OnWire) /\ Len(Append(wire, r)) = Len(wire) + 1
      BY <2>2, <3>1, AppendProperties
    <3> HIDE DEF r
    <3>3. BankFree => Len(wire) + 1 <= Banks
      BY <3>1 DEF BankFree
    <3> QED
      BY <2>1, <3>1, <3>2, <3>3 DEF r
  <2> QED
    BY <1>1, <2>1, <2>3, <2>4 DEF TypeInv, DeviceOK, MoverOK, PlaceOK, RoundOK, moveVars
<1>11. CASE DoReply
  <2>1. /\ UNCHANGED <<buttons, wire, sent, due>>
        /\ \/ /\ at = "wait" /\ at' = IF count = 0 THEN "look" ELSE "move"
              /\ ret' = 0 /\ UNCHANGED <<goal, step, count, bulk, ccount, err_count>>
           \/ at = "last" /\ at' = "idle" /\ Forget
           \/ UNCHANGED <<at, moveVars>>
    BY <1>11 DEF DoReply, Do
  <2>2. DeviceOK'
    BY <1>1, <2>1 DEF TypeInv, DeviceOK
  <2>3. MoverOK'
    <3>1. CASE at = "wait" /\ at' = (IF count = 0 THEN "look" ELSE "move") /\ ret' = 0
               /\ UNCHANGED <<goal, step, count, bulk, ccount, err_count>>
      <4>1. at' \in {"look", "move"} /\ (at' = "move" => count > 0)
        BY <3>1 DEF TypeInv, MoverOK, PlaceOK, RoundOK
      <4> QED
        BY <1>1, <2>1, <3>1, <4>1 DEF TypeInv, MoverOK, PlaceOK, RoundOK, Places
    <3>2. CASE at' = "idle" /\ Forget
      <4>1. RoundOK'
        BY <3>2, RoundStarts DEF Forget
      <4>2. PlaceOK'
        BY <1>1, <2>1, <3>2 DEF TypeInv, MoverOK, PlaceOK, Forget, Places
      <4> QED
        BY <4>1, <4>2 DEF MoverOK
    <3>3. CASE UNCHANGED <<at, moveVars>>
      BY <1>1, <2>1, <3>3 DEF TypeInv, MoverOK, PlaceOK, RoundOK, moveVars
    <3> QED
      BY <2>1, <3>1, <3>2, <3>3
  <2> QED
    BY <2>2, <2>3 DEF TypeInv
<1> QED
  BY <1>5, <1>6, <1>7, <1>8, <1>9, <1>10, <1>11 DEF Operation

LEMMA HostTyped ==
  ASSUME TypeInv, HostTakes
  PROVE  TypeInv'
<1>1. /\ wire # <<>> /\ wire' = Tail(wire)
      /\ UNCHANGED <<buttons, todo, configured, sent, at, moveVars, due>>
  BY DEF HostTakes
<1>2. /\ Head(wire) \in OnWire /\ wire' \in Seq(OnWire) /\ Len(wire') <= Banks
  <2>1. wire \in Seq(OnWire) /\ Len(wire) \in Nat /\ Len(wire) <= Banks /\ Banks \in Nat
    BY ConstantsTyped, LenProperties DEF TypeInv, DeviceOK
  <2>2. Head(wire) \in OnWire /\ Tail(wire) \in Seq(OnWire) /\ Len(Tail(wire)) = Len(wire) - 1
    BY <1>1, <2>1, HeadTailProperties
  <2> QED
    BY <1>1, <2>1, <2>2
<1> DEFINE r == Head(wire)
<1>3. CASE r.dev = "Mouse" /\ held' = r.b
           /\ \E g \in Gains : pointer' = Pos(<<pointer[1] + g * r.d[1], pointer[2] + g * r.d[2]>>)
  <2>1. r.b \subseteq Buttons /\ r.d \in Reach
    BY <1>2, <1>3 DEF OnWire
  <2>2. r.d[1] \in Int /\ r.d[2] \in Int /\ pointer[1] \in Int /\ pointer[2] \in Int
    BY <2>1, ConstantsTyped DEF Reach, TypeInv, MoverOK, PlaceOK, RoundOK, Positions
  <2>3. PICK g \in Gains : pointer' = Pos(<<pointer[1] + g * r.d[1], pointer[2] + g * r.d[2]>>)
    BY <1>3
  <2>4. g \in Nat
    BY ConstantsTyped
  <2>5. pointer[1] + g * r.d[1] \in Int /\ pointer[2] + g * r.d[2] \in Int
    BY <2>2, <2>4
  <2>6. pointer' \in Positions
    BY <2>3, <2>5, PosTyped
  <2> QED
    BY <1>1, <1>2, <1>3, <2>1, <2>6 DEF TypeInv, DeviceOK, MoverOK, PlaceOK, RoundOK, moveVars
<1>4. CASE r.dev = "AbsoluteMouse" /\ pointer' = Pixels(r.d) /\ UNCHANGED held
  <2>1. r.d \in Axes
    BY <1>2, <1>4 DEF OnWire
  <2>2. r.d[1] \in 0..AMax /\ r.d[2] \in 0..AMax
    BY <2>1 DEF Axes
  <2>3. Width \in Nat \ {0} /\ Height \in Nat \ {0}
    BY ConstantsTyped
  <2>4. /\ (r.d[1] * Width) \div (AMax + 1) \in 0..(Width - 1)
        /\ (r.d[2] * Height) \div (AMax + 1) \in 0..(Height - 1)
    BY <2>2, <2>3, PixelOn
  <2>5. pointer' \in Positions
    BY <1>4, <2>4 DEF Pixels, Positions
  <2> QED
    BY <1>1, <1>2, <1>4, <2>5 DEF TypeInv, DeviceOK, MoverOK, PlaceOK, RoundOK, moveVars
<1> QED
  BY <1>3, <1>4 DEF HostTakes

LEMMA IssueTyped ==
  ASSUME TypeInv, NEW from, NEW wait \in Places, NEW ops \in Seq(Ops), Issue(from, wait, ops)
  PROVE  DeviceOK' /\ UNCHANGED <<pointer, due>> /\ at' = wait /\ at = from
<1>1. Reply \in Seq(Ops)
  <2>1. Op("reply", {}, Here) \in Ops
    BY OpTyped
  <2> QED
    BY <2>1, SingleTyped DEF Reply
<1>2. ops \o Reply \in Seq(Ops)
  BY <1>1, ConcatProperties
<1> QED
  BY <1>2 DEF Issue, TypeInv, DeviceOK

LEMMA MoveToStepTyped ==
  ASSUME TypeInv, MoveTo \/ MoveToStep
  PROVE  TypeInv'
<1>1. ASSUME UNCHANGED devVars, UNCHANGED held PROVE DeviceOK'
  BY <1>1 DEF TypeInv, DeviceOK, devVars
<1>2. CASE MoveTo
  <2>1. /\ at' = "look" /\ ret' = 0 /\ ccount' = 0 /\ err_count' = 0
        /\ step' = Here /\ count' = 0 /\ bulk' = FALSE /\ due' = NoGoal /\ goal' \in Goals
        /\ UNCHANGED <<devVars, pointer, held>>
    BY <1>2 DEF MoveTo
  <2>2. MoverOK'
    <3>1. RoundOK'
      BY <2>1, RoundStarts
    <3>2. PlaceOK'
      BY <2>1 DEF TypeInv, MoverOK, PlaceOK, Places
    <3> QED
      BY <3>1, <3>2 DEF MoverOK
  <2> QED
    BY <1>1, <2>1, <2>2 DEF TypeInv
<1>3. CASE LookArrived
  <2>1. /\ at = "look" /\ at' = "idle" /\ Forget /\ due' \in {goal, NoGoal}
        /\ UNCHANGED <<devVars, pointer, held>>
    BY <1>3 DEF LookArrived
  <2>2. MoverOK'
    <3>1. RoundOK'
      BY <2>1, RoundStarts DEF Forget
    <3>2. PlaceOK'
      BY <2>1 DEF TypeInv, MoverOK, PlaceOK, Places, Forget
    <3> QED
      BY <3>1, <3>2 DEF MoverOK
  <2> QED
    BY <1>1, <2>1, <2>2 DEF TypeInv
<1>4. CASE LookNear
  <2>1. /\ at = "look" /\ at' = "move" /\ step' = <<xo, yo>> /\ count' = 1 /\ bulk' = FALSE
        /\ ccount' = ccount + 1 /\ ccount < 3
        /\ UNCHANGED <<devVars, pointer, held, goal, err_count, ret, due>>
    BY <1>4 DEF LookNear, MoreRounds
  <2>2. step' \in Distances
    BY <2>1, OffsetTyped DEF TypeInv, Distances
  <2>3. MoverOK'
    <3>1. PlaceOK'
      BY <2>1 DEF TypeInv, MoverOK, PlaceOK, Places
    <3>2. 1 \in Nat /\ 1 > 0 /\ ccount + 1 \in 0..3
      BY <2>1 DEF TypeInv, MoverOK, RoundOK
    <3>3. RoundOK'
      BY <2>1, <2>2, <3>2, Zenon DEF TypeInv, MoverOK, RoundOK
    <3> QED
      BY <3>1, <3>3 DEF MoverOK
  <2> QED
    BY <1>1, <2>1, <2>3 DEF TypeInv
<1>5. CASE LookFar
  <2>1. /\ at = "look" /\ ~Near /\ at' = "move" /\ step' = StepTo /\ count' = Calls /\ bulk' = TRUE
        /\ ccount' = ccount + 1 /\ ccount < 3
        /\ UNCHANGED <<devVars, pointer, held, goal, err_count, ret, due>>
    BY <1>5 DEF LookFar, MoreRounds
  <2>2. step' \in Distances /\ count' \in Nat /\ count' > 0
    <3>1. Calls \in Nat \ {0} /\ StepTo \in Distances
      BY <2>1, StepTyped DEF TypeInv
    <3>2. \A c \in Nat \ {0} : c \in Nat /\ c > 0
      OBVIOUS
    <3> QED
      BY <2>1, <3>1, <3>2
  <2>3. MoverOK'
    BY <2>1, <2>2 DEF TypeInv, MoverOK, PlaceOK, RoundOK, Places
  <2> QED
    BY <1>1, <2>1, <2>3 DEF TypeInv
<1>6. CASE LookEnough
  BY <1>6, <1>1 DEF LookEnough, TypeInv, MoverOK, PlaceOK, RoundOK, Places, moveVars
<1>7. CASE IssueMove
  <2>1. /\ Issue("move", "wait", MoveToR(step)) /\ count' = count - 1
        /\ step' = IF count' = 0 THEN Here ELSE step
        /\ UNCHANGED <<goal, bulk, ccount, err_count, ret>>
    BY <1>7 DEF IssueMove
  <2>2. step[1] \in Int /\ step[2] \in Int
    BY ConstantsTyped DEF TypeInv, MoverOK, PlaceOK, RoundOK, Distances
  <2>3. DeviceOK' /\ UNCHANGED <<pointer, due>> /\ at' = "wait" /\ at = "move"
    BY <2>1, <2>2, MoveTyped, IssueTyped DEF Places
  <2>4. count' \in Nat /\ step' \in Distances
    BY <2>1, <2>3, HereTyped DEF TypeInv, MoverOK, PlaceOK, RoundOK
  <2>5. MoverOK'
    BY <2>1, <2>3, <2>4 DEF TypeInv, MoverOK, PlaceOK, RoundOK, Places
  <2> QED
    BY <2>3, <2>5 DEF TypeInv
<1>8. CASE IssueMoveTo
  <2>1. Issue("final", "last", MoveToA(goal)) /\ UNCHANGED moveVars /\ at = "final"
    BY <1>8 DEF IssueMoveTo, Issue
  <2>2. goal \in Goals
    BY <2>1 DEF TypeInv, MoverOK, PlaceOK, RoundOK
  <2>3. DeviceOK' /\ UNCHANGED <<pointer, due>> /\ at' = "last"
    BY <2>1, <2>2, MoveToTyped, IssueTyped DEF Places
  <2>4. MoverOK'
    BY <2>1, <2>3 DEF TypeInv, MoverOK, PlaceOK, RoundOK, Places, moveVars
  <2> QED
    BY <2>3, <2>4 DEF TypeInv
<1>9. CASE MoveFails
  <2>1. /\ at' = IF count' = 0 THEN "look" ELSE "move"
        /\ step' = IF count' = 0 THEN Here ELSE step
        /\ ret' = -1 /\ err_count' = IF bulk THEN err_count + 1 ELSE err_count
        /\ UNCHANGED <<devVars, pointer, held, goal, bulk, ccount, due>>
    BY <1>9 DEF MoveFails
  <2>2. count' \in Nat /\ at # "idle"
    BY <1>9 DEF MoveFails, TypeInv, MoverOK, PlaceOK, RoundOK
  <2>3. at' \in {"look", "move"} /\ (at' = "move" => count' > 0) /\ step' \in Distances
        /\ err_count' \in Nat
    BY <2>1, <2>2, HereTyped DEF TypeInv, MoverOK, PlaceOK, RoundOK
  <2>4. MoverOK'
    BY <2>1, <2>2, <2>3 DEF TypeInv, MoverOK, PlaceOK, RoundOK, Places
  <2> QED
    BY <1>1, <2>1, <2>4 DEF TypeInv
<1>10. CASE MoveToFails
  <2>1. /\ at' = "idle" /\ due' = NoGoal /\ Forget /\ UNCHANGED <<devVars, pointer, held>>
    BY <1>10 DEF MoveToFails
  <2>2. MoverOK'
    <3>1. RoundOK'
      BY <2>1, RoundStarts DEF Forget
    <3>2. PlaceOK'
      BY <2>1 DEF TypeInv, MoverOK, PlaceOK, Places, Forget
    <3> QED
      BY <3>1, <3>2 DEF MoverOK
  <2> QED
    BY <1>1, <2>1, <2>2 DEF TypeInv
<1> QED
  BY <1>2, <1>3, <1>4, <1>5, <1>6, <1>7, <1>8, <1>9, <1>10 DEF MoveToStep

LEMMA RestTyped ==
  ASSUME TypeInv, Reset \/ BusReset \/ Configure
  PROVE  TypeInv'
<1>1. Len(<<>>) = 0 /\ <<>> \in Seq(OnWire) /\ <<>> \in Seq(Ops) /\ 0 <= Banks
  BY ConstantsTyped, EmptySeq
<1>2. CASE Reset
  BY <1>1, <1>2 DEF Reset, TypeInv, DeviceOK, MoverOK, PlaceOK, RoundOK, moveVars
<1>3. CASE BusReset
  BY <1>1, <1>3 DEF BusReset, TypeInv, DeviceOK, MoverOK, PlaceOK, RoundOK, moveVars
<1>4. CASE Configure
  BY <1>1, <1>4 DEF Configure, TypeInv, DeviceOK, MoverOK, PlaceOK, RoundOK, moveVars
<1> QED
  BY <1>2, <1>3, <1>4

LEMMA NextTypeInv == TypeInv /\ [Next]_vars => TypeInv'
<1> SUFFICES ASSUME TypeInv, [Next]_vars PROVE TypeInv'
  OBVIOUS
<1>1. CASE UNCHANGED vars
  BY <1>1 DEF vars, devVars, moveVars, TypeInv, DeviceOK, MoverOK, PlaceOK, RoundOK
<1> QED
  BY <1>1, ButtonTyped, MoveCommandTyped, OperationTyped, HostTyped, RestTyped, MoveToStepTyped
     DEF Next

LEMMA InitTypeInv == Init => TypeInv
<1> SUFFICES ASSUME Init PROVE TypeInv
  OBVIOUS
<1>1. Len(<<>>) = 0 /\ <<>> \in Seq(OnWire) /\ <<>> \in Seq(Ops) /\ 0 <= Banks
  BY ConstantsTyped, EmptySeq
<1>2. DeviceOK
  BY <1>1 DEF Init, DeviceOK
<1>3. MoverOK
  <2>1. RoundOK
    BY RoundStarts DEF Init
  <2>2. PlaceOK
    BY HereTyped DEF Init, PlaceOK, Places
  <2> QED
    BY <2>1, <2>2 DEF MoverOK
<1> QED
  BY <1>2, <1>3 DEF TypeInv

(* Reports keep to the ranges of their fields, the pointer stays on the     *)
(* screen and every MoveToR of a round is one still counted: the distances  *)
(* and divisions of MoveTo are in range for every screen.                   *)
THEOREM TypeCorrect == Spec => []TypeOK
<1>1. ASSUME TypeInv PROVE TypeOK
  <2>1. ASSUME NEW i \in DOMAIN wire
        PROVE  \/ wire[i] \in [dev : {"Mouse"}, b : SUBSET Buttons, d : Reach]
               \/ wire[i] \in [dev : {"AbsoluteMouse"}, b : {{}}, d : (0..AMax) \X (0..AMax)]
    <3>1. i \in 1..Len(wire) /\ wire \in Seq(OnWire)
      BY <1>1, <2>1, LenProperties DEF TypeInv, DeviceOK
    <3>2. wire[i] \in OnWire
      BY <3>1, ElementOfSeq
    <3> QED
      BY <3>2 DEF OnWire, Axes
  <2> QED
    BY <1>1, <2>1 DEF TypeInv, DeviceOK, MoverOK, PlaceOK, RoundOK, TypeOK
<1> QED
  BY <1>1, InitTypeInv, NextTypeInv, PTL DEF Spec

-----------------------------------------------------------------------------
(* The buttons of the host.  b is shown by the last report of Mouse on the  *)
(* wire or, if there is none, by the host.                                  *)

Mouse(i) == wire[i].dev = "Mouse"

Last(i) == i \in 1..Len(wire) /\ Mouse(i) /\ \A j \in 1..Len(wire) : j > i => ~Mouse(j)

Shows(b) ==
  \/ b = held /\ \A i \in 1..Len(wire) : ~Mouse(i)
  \/ \E i \in 1..Len(wire) : Last(i) /\ wire[i].b = b

ShownBy(w, h) ==
  LET S == {i \in DOMAIN w : w[i].dev = "Mouse"}
  IN IF S = {} THEN h ELSE w[CHOOSE i \in S : \A j \in S : j <= i].b

LEMMA NothingShown ==
  ASSUME NEW w \in Seq(OnWire), NEW h, \A i \in 1..Len(w) : w[i].dev # "Mouse"
  PROVE  ShownBy(w, h) = h
<1>1. DOMAIN w = 1..Len(w)
  BY LenProperties
<1>2. {i \in DOMAIN w : w[i].dev = "Mouse"} = {}
  BY <1>1
<1> QED
  BY <1>2 DEF ShownBy

LEMMA LastShown ==
  ASSUME NEW w \in Seq(OnWire), NEW h, NEW i \in 1..Len(w), w[i].dev = "Mouse",
         \A j \in 1..Len(w) : j > i => w[j].dev # "Mouse"
  PROVE  ShownBy(w, h) = w[i].b
<1> DEFINE S == {k \in DOMAIN w : w[k].dev = "Mouse"}
<1>1. DOMAIN w = 1..Len(w) /\ Len(w) \in Nat
  BY LenProperties
<1>2. i \in S /\ S # {}
  BY <1>1
<1>3. ASSUME NEW j \in S PROVE j <= i
  <2>1. j \in 1..Len(w) /\ ~(j > i)
    BY <1>1
  <2> QED
    BY <2>1
<1>4. ASSUME NEW k \in S, \A j \in S : j <= k PROVE k = i
  <2>1. i <= k /\ k <= i /\ k \in 1..Len(w)
    BY <1>1, <1>2, <1>3, <1>4
  <2> QED
    BY <2>1
<1>5. ShownBy(w, h) = w[CHOOSE k \in S : \A j \in S : j <= k].b
  BY <1>2 DEF ShownBy
<1> HIDE DEF S
<1>6. (CHOOSE k \in S : \A j \in S : j <= k) = i
  BY <1>2, <1>3, <1>4
<1> QED
  BY <1>5, <1>6

LEMMA ShownIs ==
  ASSUME NEW b
  PROVE  /\ wire \in Seq(OnWire) /\ Shows(b) => Shown = b
         /\ wire' \in Seq(OnWire) /\ Shows(b)' => Shown' = b
<1>1. Shown = ShownBy(wire, held) /\ Shown' = ShownBy(wire', held')
  BY DEF Shown, ShownBy
<1>2. ASSUME wire \in Seq(OnWire), Shows(b) PROVE Shown = b
  BY <1>1, <1>2, NothingShown, LastShown DEF Shows, Last, Mouse
<1>3. ASSUME wire' \in Seq(OnWire), Shows(b)' PROVE Shown' = b
  BY <1>1, <1>3, NothingShown, LastShown DEF Shows, Last, Mouse
<1> QED
  BY <1>2, <1>3

LEMMA Appended ==
  ASSUME wire \in Seq(OnWire), NEW r \in OnWire, wire' = Append(wire, r)
  PROVE  /\ Len(wire) \in Nat /\ Len(wire') = Len(wire) + 1
         /\ wire'[Len(wire) + 1] = r /\ \A i \in 1..Len(wire) : wire'[i] = wire[i]
         /\ \A i \in 1..Len(wire') : i \in 1..Len(wire) \/ i = Len(wire) + 1
<1>1. /\ Len(wire) \in Nat /\ Len(wire') = Len(wire) + 1
      /\ wire'[Len(wire) + 1] = r /\ \A i \in 1..Len(wire) : wire'[i] = wire[i]
  BY AppendProperties, LenProperties
<1>2. \A i \in 1..Len(wire') : i \in 1..Len(wire) \/ i = Len(wire) + 1
  BY <1>1
<1> QED
  BY <1>1, <1>2

(* A report of Mouse shows its buttons, whatever was on the wire.           *)
LEMMA MouseShows ==
  ASSUME wire \in Seq(OnWire), NEW r \in OnWire, r.dev = "Mouse", wire' = Append(wire, r)
  PROVE  Shows(r.b)'
<1>1. Len(wire) + 1 \in 1..Len(wire') /\ wire'[Len(wire) + 1] = r
      /\ Len(wire') = Len(wire) + 1 /\ Len(wire) \in Nat
  BY Appended
<1>2. \A j \in 1..Len(wire') : ~(j > Len(wire) + 1)
  BY <1>1
<1> QED
  BY <1>1, <1>2 DEF Shows, Last, Mouse

(* A report of AbsoluteMouse, and one that is taken, leave what is shown.   *)
LEMMA AbsoluteShows ==
  ASSUME wire \in Seq(OnWire), NEW r \in OnWire, r.dev # "Mouse", wire' = Append(wire, r),
         NEW b, Shows(b), held' = held
  PROVE  Shows(b)'
<1>1. /\ Len(wire) \in Nat /\ Len(wire') = Len(wire) + 1
      /\ wire'[Len(wire) + 1] = r /\ \A i \in 1..Len(wire) : wire'[i] = wire[i]
      /\ \A i \in 1..Len(wire') : i \in 1..Len(wire) \/ i = Len(wire) + 1
  BY Appended
<1>2. CASE b = held /\ \A i \in 1..Len(wire) : ~Mouse(i)
  BY <1>1, <1>2 DEF Shows, Mouse
<1>3. ASSUME NEW i \in 1..Len(wire), Last(i), wire[i].b = b
      PROVE  Shows(b)'
  <2>1. i \in 1..Len(wire') /\ wire'[i] = wire[i]
    BY <1>1
  <2>2. \A j \in 1..Len(wire') : j > i => wire'[j].dev # "Mouse"
    BY <1>1, <1>3 DEF Last, Mouse
  <2> QED
    BY <1>3, <2>1, <2>2 DEF Shows, Last, Mouse
<1> QED
  BY <1>2, <1>3 DEF Shows

LEMMA TakenShows ==
  ASSUME wire \in Seq(OnWire), wire # <<>>, wire' = Tail(wire), NEW b, Shows(b),
         IF Head(wire).dev = "Mouse" THEN held' = Head(wire).b ELSE held' = held
  PROVE  Shows(b)'
<1>1. /\ Len(wire) \in Nat \ {0} /\ Len(wire') = Len(wire) - 1 /\ Head(wire) = wire[1]
      /\ \A i \in 1..Len(wire') : wire'[i] = wire[i + 1]
  BY HeadTailProperties, EmptySeq
<1>2. \A i \in 1..Len(wire') : i + 1 \in 1..Len(wire)
  BY <1>1
<1>3. CASE b = held /\ \A i \in 1..Len(wire) : ~Mouse(i)
  <2>1. 1 \in 1..Len(wire)
    BY <1>1
  <2>2. held' = held
    BY <1>1, <1>3, <2>1 DEF Mouse
  <2> QED
    BY <1>1, <1>2, <1>3, <2>2 DEF Shows, Mouse
<1>4. ASSUME NEW i \in 1..Len(wire), Last(i), wire[i].b = b, i = 1
      PROVE  Shows(b)'
  <2>1. held' = b
    BY <1>1, <1>4 DEF Last, Mouse
  <2>2. \A j \in 1..Len(wire') : wire'[j].dev # "Mouse"
    <3> SUFFICES ASSUME NEW j \in 1..Len(wire') PROVE wire'[j].dev # "Mouse"
      OBVIOUS
    <3>1. j + 1 \in 1..Len(wire) /\ j + 1 > i
      BY <1>1, <1>4
    <3> QED
      BY <1>1, <1>4, <3>1 DEF Last, Mouse
  <2> QED
    BY <2>1, <2>2 DEF Shows, Mouse
<1>5. ASSUME NEW i \in 1..Len(wire), Last(i), wire[i].b = b, i # 1
      PROVE  Shows(b)'
  <2> DEFINE k == i - 1
  <2>1. k \in 1..Len(wire') /\ k + 1 = i
    BY <1>1, <1>5
  <2>2. wire'[k] = wire[i]
    BY <1>1, <2>1
  <2>3. ASSUME NEW j \in 1..Len(wire'), j > k PROVE wire'[j].dev # "Mouse"
    <3>1. j + 1 \in 1..Len(wire) /\ j + 1 > i
      BY <1>1, <2>1, <2>3
    <3> QED
      BY <1>1, <1>5, <3>1 DEF Last, Mouse
  <2> HIDE DEF k
  <2> QED
    BY <1>5, <2>1, <2>2, <2>3 DEF Shows, Last, Mouse
<1> QED
  BY <1>3, <1>4, <1>5 DEF Shows

(* Before the device is configured nothing has been sent.                   *)
MirrorInv == (sent => Shows(buttons)) /\ (~configured => ~sent)

LEMMA ReportMirrors ==
  ASSUME TypeInv, MirrorInv, NEW b \in SUBSET Buttons, NEW d \in Reach, SendReport(b, d),
         buttons' = b, configured' = configured
  PROVE  MirrorInv' /\ (BankFree => Shows(b)')
<1>1. wire \in Seq(OnWire) /\ Report(b, d) \in OnWire /\ Report(b, d).dev = "Mouse"
      /\ Report(b, d).b = b
  BY DEF TypeInv, DeviceOK, Report, OnWire
<1>2. CASE BankFree /\ wire' = Append(wire, Report(b, d)) /\ sent' = TRUE
  <2>1. Shows(b)'
    BY <1>1, <1>2, MouseShows
  <2> QED
    BY <1>2, <2>1 DEF MirrorInv, BankFree, Shows
<1>3. CASE ~BankFree /\ sent' = FALSE /\ UNCHANGED wire
  BY <1>3 DEF MirrorInv
<1> QED
  BY <1>2, <1>3 DEF SendReport

LEMMA SameMirrors ==
  ASSUME MirrorInv, UNCHANGED <<buttons, configured, wire, sent, held>>
  PROVE  MirrorInv'
BY DEF MirrorInv, Shows, Last, Mouse

LEMMA OperationMirrors ==
  ASSUME TypeInv, MirrorInv, Operation
  PROVE  MirrorInv'
<1>1. /\ UNCHANGED <<configured, pointer, held>> /\ Head(todo) \in Ops
  BY HeadOp DEF TypeInv, Operation, DoPress, DoRelease, DoHold, DoReleaseAll, DoMove, DoMoveTo,
                DoReply, Do
<1>2. buttons \in SUBSET Buttons /\ Head(todo).b \in SUBSET Buttons /\ Here \in Reach
      /\ wire \in Seq(OnWire)
  BY <1>1, HereTyped DEF Ops, TypeInv, DeviceOK
<1>3. ASSUME NEW b \in SUBSET Buttons, Set(b) PROVE MirrorInv'
  <2>1. CASE b # buttons
    BY <1>1, <1>2, <1>3, <2>1, ReportMirrors DEF Set
  <2>2. CASE b = buttons
    BY <1>1, <1>3, <2>2, SameMirrors DEF Set
  <2> QED
    BY <2>1, <2>2
<1>4. CASE DoPress
  BY <1>2, <1>3, <1>4 DEF DoPress, Do
<1>5. CASE DoRelease
  <2>1. buttons \ Head(todo).b \in SUBSET Buttons
    BY <1>2
  <2> QED
    BY <1>3, <1>5, <2>1 DEF DoRelease, Do
<1>6. CASE DoHold
  BY <1>1, <1>2, <1>6, ReportMirrors DEF DoHold, Do
<1>7. CASE DoReleaseAll
  <2>1. {} \in SUBSET Buttons
    OBVIOUS
  <2> QED
    BY <1>1, <1>2, <1>7, <2>1, ReportMirrors DEF DoReleaseAll, Do
<1>8. CASE DoMove
  <2>1. Head(todo).d \in Reach
    BY <1>1, <1>8 DEF DoMove, Do, Ops
  <2> QED
    BY <1>1, <1>2, <1>8, <2>1, ReportMirrors DEF DoMove, Do
<1>9. CASE DoMoveTo
  <2> DEFINE r == [dev |-> "AbsoluteMouse", b |-> {}, d |-> Head(todo).d]
  <2>1. /\ Head(todo).op = "moveTo" /\ UNCHANGED <<buttons, sent>>
        /\ UNCHANGED wire \/ wire' = Append(wire, r)
    BY <1>9 DEF DoMoveTo, Do
  <2>2. Head(todo).d \in Axes
    BY <1>1, <2>1 DEF Ops
  <2>3. r \in OnWire /\ r.dev # "Mouse"
    BY <2>2 DEF OnWire
  <2> HIDE DEF r
  <2>4. CASE UNCHANGED wire
    BY <1>1, <2>1, <2>4, SameMirrors
  <2>5. CASE wire' = Append(wire, r)
    <3>1. Shows(buttons) => Shows(buttons)'
      <4>1. ASSUME Shows(buttons) PROVE Shows(buttons)'
        <5>1. PICK b : b = buttons
          OBVIOUS
        <5>2. Shows(b)'
          BY <1>1, <1>2, <2>3, <2>5, <4>1, <5>1, AbsoluteShows
        <5> QED
          BY <2>1, <5>1, <5>2 DEF Shows
      <4> QED
        BY <4>1
    <3> QED
      BY <1>1, <2>1, <3>1 DEF MirrorInv
  <2> QED
    BY <2>1, <2>4, <2>5
<1>10. CASE DoReply
  BY <1>1, <1>10, SameMirrors DEF DoReply, Do
<1> QED
  BY <1>4, <1>5, <1>6, <1>7, <1>8, <1>9, <1>10 DEF Operation

LEMMA NextMirrors == TypeInv /\ MirrorInv /\ [Next]_vars => MirrorInv'
<1> SUFFICES ASSUME TypeInv, MirrorInv, [Next]_vars PROVE MirrorInv'
  OBVIOUS
<1>1. CASE ButtonCommand \/ MoveCommand
  BY <1>1, SameMirrors DEF ButtonCommand, MoveCommand, Begin
<1>2. CASE Operation
  BY <1>2, OperationMirrors
<1>3. CASE HostTakes
  <2>1. /\ wire # <<>> /\ wire' = Tail(wire) /\ UNCHANGED <<buttons, configured, sent>>
        /\ IF Head(wire).dev = "Mouse" THEN held' = Head(wire).b ELSE held' = held
    BY <1>3 DEF HostTakes
  <2>2. wire \in Seq(OnWire)
    BY DEF TypeInv, DeviceOK
  <2>3. ASSUME Shows(buttons) PROVE Shows(buttons)'
    <3>1. PICK b : b = buttons
      OBVIOUS
    <3>2. Shows(b)'
      BY <2>1, <2>2, <2>3, <3>1, TakenShows
    <3> QED
      BY <2>1, <3>1, <3>2 DEF Shows
  <2> QED
    BY <2>1, <2>3 DEF MirrorInv
<1>4. CASE Reset \/ BusReset
  BY <1>4 DEF Reset, BusReset, MirrorInv
<1>5. CASE Configure
  BY <1>5 DEF Configure, MirrorInv
<1>6. CASE MoveTo
  BY <1>6, SameMirrors DEF MoveTo, devVars
<1>7. CASE MoveToStep
  BY <1>7, SameMirrors DEF MoveToStep, LookArrived, LookNear, LookFar, LookEnough, IssueMove,
                           IssueMoveTo, Issue, MoveFails, MoveToFails, devVars
<1>8. CASE UNCHANGED vars
  BY <1>8, SameMirrors DEF vars, devVars
<1> QED
  BY <1>1, <1>2, <1>3, <1>4, <1>5, <1>6, <1>7, <1>8 DEF Next

(* Whatever reports were given up before, once one of Mouse gets into the   *)
(* endpoint the host shows the buttons of the firmware.                     *)
THEOREM HostAgrees == Spec => []HostMirrorsButtons
<1>1. ASSUME TypeInv, MirrorInv PROVE HostMirrorsButtons
  BY <1>1, ShownIs DEF MirrorInv, HostMirrorsButtons, TypeInv, DeviceOK
<1>2. Init => MirrorInv
  BY DEF Init, MirrorInv
<1> QED
  BY <1>1, <1>2, InitTypeInv, NextTypeInv, NextMirrors, PTL DEF Spec

(* MouseUpAll, in a step that finds room, releases every button.            *)
THEOREM UpAllWorks == Spec => UpAllReleases
<1>1. ASSUME TypeInv, TypeInv', MirrorInv, [Next]_vars,
             todo # <<>>, Head(todo).op = "releaseAll", todo' = Tail(todo), BankFree
      PROVE  Shown' = {}
  <2>1. Len(todo) \in Nat \ {0} /\ Len(todo') = Len(todo) - 1
    BY <1>1, HeadOp DEF TypeInv
  <2>2. todo' # todo
    BY <2>1
  <2>3. CASE Operation
    <3>1. DoReleaseAll
      BY <1>1, <2>3 DEF Operation, DoPress, DoRelease, DoHold, DoMove, DoMoveTo, DoReply, Do
    <3>2. SendReport({}, Here) /\ buttons' = {} /\ configured' = configured
      BY <3>1 DEF DoReleaseAll, Do
    <3>3. {} \in SUBSET Buttons /\ Here \in Reach
      BY HereTyped
    <3>4. PICK b : b = {}
      OBVIOUS
    <3>5. Shows(b)'
      BY <1>1, <3>2, <3>3, <3>4, ReportMirrors
    <3> QED
      BY <1>1, <3>4, <3>5, ShownIs DEF TypeInv, DeviceOK
  <2>4. CASE Reset
    <3>1. wire' = <<>> /\ held' = {}
      BY <2>4 DEF Reset
    <3> QED
      BY <3>1 DEF Shown
  <2>5. ~(ButtonCommand \/ MoveCommand)
    BY <1>1 DEF ButtonCommand, MoveCommand, Begin
  <2>6. ~(HostTakes \/ BusReset \/ Configure \/ MoveTo \/ UNCHANGED vars)
    BY <2>2 DEF HostTakes, BusReset, Configure, MoveTo, vars, devVars
  <2>7. ~MoveToStep
    BY <1>1, <2>2 DEF MoveToStep, LookArrived, LookNear, LookFar, LookEnough, IssueMove,
                      IssueMoveTo, Issue, MoveFails, MoveToFails, devVars
  <2> QED
    BY <1>1, <2>3, <2>4, <2>5, <2>6, <2>7 DEF Next
<1>2. TypeInv /\ TypeInv' /\ MirrorInv /\ [Next]_vars
        => [todo # <<>> /\ Head(todo).op = "releaseAll" /\ todo' = Tail(todo) /\ BankFree
              => Shown' = {}]_vars
  BY <1>1
<1>3. Init => MirrorInv
  BY DEF Init, MirrorInv
<1> QED
  BY <1>2, <1>3, InitTypeInv, NextTypeInv, NextMirrors, PTL DEF Spec, UpAllReleases

-----------------------------------------------------------------------------
(* Where the pointer ends.  Nothing that follows the report of a MoveToA    *)
(* moves the pointer until the next move is asked for.                      *)

Rests(i) == Mouse(i) /\ wire[i].d = Here

Ends(g) ==
  \/ Reached(g) /\ \A i \in 1..Len(wire) : Rests(i)
  \/ \E i \in 1..Len(wire) :
       /\ wire[i].dev = "AbsoluteMouse" /\ wire[i].d = Units(g)
       /\ \A j \in 1..Len(wire) : j > i => Rests(j)

NoMoves == \A i \in 1..Len(todo) : todo[i].op \notin {"move", "moveTo"}

(* While MoveTo waits for its MoveToA, only that one is left to be done.    *)
LastOnly ==
  at = "last" =>
    \A i \in 1..Len(todo) :
      /\ todo[i].op # "move"
      /\ todo[i].op = "moveTo" => i = 1 /\ todo[i].d = Units(goal)

ArriveInv ==
  /\ ~configured => wire = <<>>
  /\ LastOnly
  /\ due # NoGoal => due \in Goals /\ at \in {"idle", "last"} /\ NoMoves /\ Ends(due)
  /\ at = "last" /\ due # NoGoal => due = goal

LEMMA DivMod ==
  ASSUME NEW x \in Nat, NEW m \in Nat \ {0}
  PROVE  /\ x \div m \in Nat /\ x % m \in 0..(m - 1)
         /\ x = m * (x \div m) + (x % m)
<1> DEFINE q == x \div m
           r == x % m
<1>1. q \in Nat /\ r \in 0..(m - 1) /\ x = m * q + r
  OBVIOUS
<1> QED
  BY <1>1

(* Units and back: one column short at most, and no row. *)
LEMMA ColumnBack ==
  ASSUME NEW n \in Nat, NEW w \in Nat \ {0}, NEW a \in Nat, n < w, w <= a
  PROVE  /\ (a * n) \div w + 1 \in 0..a
         /\ (((a * n) \div w + 1) * w) \div (a + 1) \in {n - 1, n}
<1> DEFINE q == (a * n) \div w
           r == (a * n) % w
           u == q + 1
           p == (u * w) \div (a + 1)
           s == (u * w) % (a + 1)
<1>1. a * n \in Nat
  OBVIOUS
<1>2. q \in Nat /\ r \in 0..(w - 1) /\ a * n = w * q + r
  BY <1>1
<1> HIDE DEF q, r
<1>3. u * w \in Nat /\ u * w = a * n - r + w /\ u \in Nat
  BY <1>1, <1>2
<1> HIDE DEF u
<1>4. p \in Int /\ s \in 0..a /\ u * w = (a + 1) * p + s
  <2>1. a + 1 \in Nat \ {0} /\ (a + 1) - 1 = a
    OBVIOUS
  <2>2. p \in Nat /\ s \in 0..((a + 1) - 1) /\ u * w = (a + 1) * p + s
    BY <1>3, <2>1, DivMod
  <2> QED
    BY <2>1, <2>2
<1> HIDE DEF p, s
<1>5. (a + 1) * p = a * n - r + w - s
  <2>1. (a + 1) * p \in Int
    BY <1>4
  <2> QED
    BY <1>1, <1>2, <1>3, <1>4, <2>1
<1>6. (a + 1) * n = a * n + n /\ (a + 1) * n \in Nat
  BY <1>1
<1>7. p <= n
  <2> SUFFICES ASSUME p >= n + 1 PROVE FALSE
    BY <1>4
  <2>1. (a + 1) * p >= (a + 1) * (n + 1)
    BY <1>4
  <2>2. (a + 1) * (n + 1) = a * n + n + a + 1
    BY <1>6
  <2> QED
    BY <1>1, <1>2, <1>4, <1>5, <2>1, <2>2
<1>8. p >= n - 1
  <2> SUFFICES ASSUME p <= n - 2 PROVE FALSE
    BY <1>4
  <2>1. (a + 1) * p <= (a + 1) * (n - 2)
    BY <1>4
  <2>2. (a + 1) * (n - 2) = a * n + n - 2 * a - 2
    BY <1>6
  <2> QED
    BY <1>1, <1>2, <1>4, <1>5, <2>1, <2>2
<1>9. q <= a - 1
  <2> SUFFICES ASSUME q >= a PROVE FALSE
    BY <1>2
  <2>1. w * q >= w * a
    BY <1>2
  <2>2. a * n <= a * (w - 1) /\ a * (w - 1) = w * a - a /\ w * a \in Nat
    BY <1>1
  <2>3. w * q \in Nat
    BY <1>2
  <2> QED
    BY <1>1, <1>2, <2>1, <2>2, <2>3
<1>10. u \in 0..a
  BY <1>2, <1>9 DEF u
<1>11. p \in {n - 1, n}
  BY <1>4, <1>7, <1>8
<1> QED
  BY <1>10, <1>11 DEF p, u, q

LEMMA RowBack ==
  ASSUME NEW n \in Nat, NEW h \in Nat \ {0}, NEW a \in Nat, n < h, 2 * h <= a
  PROVE  /\ (a * n) \div h + 2 \in 0..a
         /\ (((a * n) \div h + 2) * h) \div (a + 1) = n
<1> DEFINE q == (a * n) \div h
           r == (a * n) % h
           u == q + 2
           p == (u * h) \div (a + 1)
           s == (u * h) % (a + 1)
<1>1. a * n \in Nat
  OBVIOUS
<1>2. q \in Nat /\ r \in 0..(h - 1) /\ a * n = h * q + r
  BY <1>1
<1> HIDE DEF q, r
<1>3. u * h \in Nat /\ u * h = a * n - r + 2 * h /\ u \in Nat
  BY <1>1, <1>2
<1> HIDE DEF u
<1>4. p \in Int /\ s \in 0..a /\ u * h = (a + 1) * p + s
  <2>1. a + 1 \in Nat \ {0} /\ (a + 1) - 1 = a
    OBVIOUS
  <2>2. p \in Nat /\ s \in 0..((a + 1) - 1) /\ u * h = (a + 1) * p + s
    BY <1>3, <2>1, DivMod
  <2> QED
    BY <2>1, <2>2
<1> HIDE DEF p, s
<1>5. (a + 1) * p = a * n - r + 2 * h - s
  <2>1. (a + 1) * p \in Int
    BY <1>4
  <2> QED
    BY <1>1, <1>2, <1>3, <1>4, <2>1
<1>6. (a + 1) * n = a * n + n /\ (a + 1) * n \in Nat
  BY <1>1
<1>7. p <= n
  <2> SUFFICES ASSUME p >= n + 1 PROVE FALSE
    BY <1>4
  <2>1. (a + 1) * p >= (a + 1) * (n + 1)
    BY <1>4
  <2>2. (a + 1) * (n + 1) = a * n + n + a + 1
    BY <1>6
  <2> QED
    BY <1>1, <1>2, <1>4, <1>5, <2>1, <2>2
<1>8. p >= n
  <2> SUFFICES ASSUME p <= n - 1 PROVE FALSE
    BY <1>4
  <2>1. (a + 1) * p <= (a + 1) * (n - 1)
    BY <1>4
  <2>2. (a + 1) * (n - 1) = a * n + n - a - 1
    BY <1>6
  <2> QED
    BY <1>1, <1>2, <1>4, <1>5, <2>1, <2>2
<1>9. q <= a - 2
  <2> SUFFICES ASSUME q >= a - 1 PROVE FALSE
    BY <1>2
  <2>1. h * q >= h * (a - 1) /\ h * (a - 1) = h * a - h
    BY <1>2
  <2>2. a * n <= a * (h - 1) /\ a * (h - 1) = h * a - a /\ h * a \in Nat
    BY <1>1
  <2>3. h * q \in Nat
    BY <1>2
  <2> QED
    BY <1>1, <1>2, <2>1, <2>2, <2>3
<1>10. u \in 0..a
  BY <1>2, <1>9 DEF u
<1>11. p = n
  BY <1>4, <1>7, <1>8
<1> QED
  BY <1>10, <1>11 DEF p, u, q

LEMMA PixelsBack ==
  ASSUME NEW g \in Goals
  PROVE  Pixels(Units(g))[1] \in {g[1] - 1, g[1]} /\ Pixels(Units(g))[2] = g[2]
<1>1. /\ g[1] \in Nat /\ g[1] < Width /\ g[2] \in Nat /\ g[2] < Height
      /\ Width \in Nat \ {0} /\ Height \in Nat \ {0}
      /\ AMax \in Nat /\ Width <= AMax /\ 2 * Height <= AMax
  BY ConstantsTyped, MouseAssumption
<1> DEFINE x == (AMax * g[1]) \div Width + 1
           y == (AMax * g[2]) \div Height + 2
<1>2. x \in 0..AMax /\ (x * Width) \div (AMax + 1) \in {g[1] - 1, g[1]}
  BY <1>1, ColumnBack
<1>3. y \in 0..AMax /\ (y * Height) \div (AMax + 1) = g[2]
  BY <1>1, RowBack
<1> HIDE DEF x, y
<1>4. constrain(x, 0, AMax) = x /\ constrain(y, 0, AMax) = y
  BY <1>1, <1>2, <1>3 DEF constrain
<1>5. Units(g)[1] = x /\ Units(g)[2] = y
  BY <1>4 DEF Units, Unit, x, y
<1> QED
  BY <1>2, <1>3, <1>5 DEF Pixels

LEMMA PosHere ==
  ASSUME NEW p \in Positions
  PROVE  Pos(p)[1] = p[1] /\ Pos(p)[2] = p[2]
<1>1. p[1] \in 0..(Width - 1) /\ p[2] \in 0..(Height - 1) /\ Width \in Nat /\ Height \in Nat
  BY ConstantsTyped DEF Positions
<1>2. constrain(p[1], 0, Width - 1) = p[1] /\ constrain(p[2], 0, Height - 1) = p[2]
  BY <1>1 DEF constrain
<1> QED
  BY <1>2 DEF Pos

(* A report of Mouse that moves by nothing leaves the end as it is.         *)
LEMMA RestEnds ==
  ASSUME wire \in Seq(OnWire), NEW b \in SUBSET Buttons, NEW g, Ends(g), pointer' = pointer,
         wire' = Append(wire, Report(b, Here))
  PROVE  Ends(g)'
<1> DEFINE r == Report(b, Here)
<1>0. r \in OnWire /\ r.dev = "Mouse" /\ r.d = Here
  BY HereTyped DEF Report, OnWire
<1>1. /\ Len(wire) \in Nat /\ Len(wire') = Len(wire) + 1
      /\ wire'[Len(wire) + 1] = r /\ \A i \in 1..Len(wire) : wire'[i] = wire[i]
      /\ \A i \in 1..Len(wire') : i \in 1..Len(wire) \/ i = Len(wire) + 1
  BY <1>0, Appended
<1> HIDE DEF r
<1>2. CASE Reached(g) /\ \A i \in 1..Len(wire) : Rests(i)
  <2>1. \A i \in 1..Len(wire') : wire'[i].dev = "Mouse" /\ wire'[i].d = Here
    BY <1>0, <1>1, <1>2 DEF Rests, Mouse
  <2> QED
    BY <1>2, <2>1 DEF Ends, Rests, Mouse, Reached
<1>3. ASSUME NEW i \in 1..Len(wire),
             wire[i].dev = "AbsoluteMouse", wire[i].d = Units(g),
             \A j \in 1..Len(wire) : j > i => Rests(j)
      PROVE  Ends(g)'
  <2>1. i \in 1..Len(wire') /\ wire'[i] = wire[i]
    BY <1>1
  <2>2. \A j \in 1..Len(wire') : j > i => wire'[j].dev = "Mouse" /\ wire'[j].d = Here
    BY <1>0, <1>1, <1>3 DEF Rests, Mouse
  <2> QED
    BY <1>3, <2>1, <2>2 DEF Ends, Rests, Mouse
<1> QED
  BY <1>2, <1>3 DEF Ends

LEMMA JumpEnds ==
  ASSUME wire \in Seq(OnWire), NEW r \in OnWire, NEW g, r.dev = "AbsoluteMouse", r.d = Units(g),
         wire' = Append(wire, r)
  PROVE  Ends(g)'
<1>1. Len(wire) + 1 \in 1..Len(wire') /\ wire'[Len(wire) + 1] = r
      /\ Len(wire') = Len(wire) + 1 /\ Len(wire) \in Nat
  BY Appended
<1>2. \A j \in 1..Len(wire') : ~(j > Len(wire) + 1)
  BY <1>1
<1> QED
  BY <1>1, <1>2 DEF Ends

LEMMA TakenEnds ==
  ASSUME TypeInv, NEW g \in Goals, Ends(g), HostTakes
  PROVE  Ends(g)'
<1>0. wire # <<>> /\ wire' = Tail(wire) /\ wire \in Seq(OnWire) /\ pointer \in Positions
  BY DEF HostTakes, TypeInv, DeviceOK, MoverOK, PlaceOK
<1>1. /\ Len(wire) \in Nat \ {0} /\ Len(wire') = Len(wire) - 1 /\ Head(wire) = wire[1]
      /\ \A i \in 1..Len(wire') : wire'[i] = wire[i + 1]
  BY <1>0, HeadTailProperties, EmptySeq
<1>2. \A i \in 1..Len(wire') : i + 1 \in 1..Len(wire)
  BY <1>1
<1>3. ASSUME Rests(1) PROVE pointer'[1] = pointer[1] /\ pointer'[2] = pointer[2]
  <2>1. PICK k \in Gains : pointer' = Pos(<<pointer[1] + k * Here[1], pointer[2] + k * Here[2]>>)
    BY <1>1, <1>3 DEF HostTakes, Rests, Mouse
  <2>2. k \in Nat /\ pointer[1] \in Int /\ pointer[2] \in Int /\ Here[1] = 0 /\ Here[2] = 0
    BY <1>0, ConstantsTyped DEF Positions
  <2>3. pointer[1] + k * Here[1] = pointer[1] /\ pointer[2] + k * Here[2] = pointer[2]
    BY <2>2
  <2>4. pointer' = Pos(<<pointer[1], pointer[2]>>)
    BY <2>1, <2>3
  <2>5. <<pointer[1], pointer[2]>> \in Positions
    BY <1>0 DEF Positions
  <2> QED
    BY <2>4, <2>5, PosHere
<1>4. CASE Reached(g) /\ \A i \in 1..Len(wire) : Rests(i)
  <2>1. 1 \in 1..Len(wire)
    BY <1>1
  <2>2. pointer'[1] = pointer[1] /\ pointer'[2] = pointer[2]
    BY <1>3, <1>4, <2>1
  <2>3. \A i \in 1..Len(wire') : wire'[i].dev = "Mouse" /\ wire'[i].d = Here
    BY <1>1, <1>2, <1>4 DEF Rests, Mouse
  <2> QED
    BY <1>4, <2>2, <2>3 DEF Ends, Rests, Mouse, Reached
<1>5. ASSUME NEW i \in 1..Len(wire), i = 1,
             wire[i].dev = "AbsoluteMouse", wire[i].d = Units(g),
             \A j \in 1..Len(wire) : j > i => Rests(j)
      PROVE  Ends(g)'
  <2>1. pointer' = Pixels(Units(g))
    BY <1>1, <1>5 DEF HostTakes
  <2>2. pointer'[1] \in {g[1] - 1, g[1]} /\ pointer'[2] = g[2]
    BY <2>1, PixelsBack
  <2>3. ASSUME NEW j \in 1..Len(wire') PROVE wire'[j].dev = "Mouse" /\ wire'[j].d = Here
    <3>1. j + 1 \in 1..Len(wire) /\ j + 1 > i
      BY <1>1, <1>5
    <3> QED
      BY <1>1, <1>5, <3>1 DEF Rests, Mouse
  <2> QED
    BY <2>2, <2>3 DEF Ends, Rests, Mouse, Reached
<1>6. ASSUME NEW i \in 1..Len(wire), i # 1,
             wire[i].dev = "AbsoluteMouse", wire[i].d = Units(g),
             \A j \in 1..Len(wire) : j > i => Rests(j)
      PROVE  Ends(g)'
  <2> DEFINE k == i - 1
  <2>1. k \in 1..Len(wire') /\ k + 1 = i
    BY <1>1, <1>6
  <2>2. wire'[k] = wire[i]
    BY <1>1, <2>1
  <2>3. ASSUME NEW j \in 1..Len(wire'), j > k PROVE wire'[j].dev = "Mouse" /\ wire'[j].d = Here
    <3>1. j + 1 \in 1..Len(wire) /\ j + 1 > i
      BY <1>1, <2>1, <2>3
    <3> QED
      BY <1>1, <1>6, <3>1 DEF Rests, Mouse
  <2> HIDE DEF k
  <2> QED
    BY <1>6, <2>1, <2>2, <2>3 DEF Ends, Rests, Mouse
<1> QED
  BY <1>4, <1>5, <1>6 DEF Ends

(* What a step does to the commands still to be done, for ArriveInv.        *)
LEMMA TailTodo ==
  ASSUME TypeInv, ArriveInv, todo # <<>>, todo' = Tail(todo)
  PROVE  /\ \A i \in 1..Len(todo') : i + 1 \in 1..Len(todo) /\ todo'[i] = todo[i + 1]
         /\ 1 \in 1..Len(todo) /\ Head(todo) = todo[1]
         /\ due # NoGoal => NoMoves'
         /\ at' = at /\ goal' = goal => LastOnly'
         /\ at = "last" => NoMoves'
<1>1. /\ Len(todo) \in Nat \ {0} /\ Len(todo') = Len(todo) - 1 /\ Head(todo) = todo[1]
      /\ \A i \in 1..Len(todo') : todo'[i] = todo[i + 1]
  BY HeadTailProperties, EmptySeq DEF TypeInv, DeviceOK
<1>2. \A i \in 1..Len(todo') : i + 1 \in 1..Len(todo) /\ i + 1 # 1
  BY <1>1
<1>3. at = "last" => NoMoves'
  BY <1>1, <1>2 DEF ArriveInv, LastOnly, NoMoves
<1>4. due # NoGoal => NoMoves'
  BY <1>1, <1>2 DEF ArriveInv, NoMoves
<1>5. at' = at /\ goal' = goal => LastOnly'
  BY <1>3 DEF LastOnly, NoMoves
<1>6. 1 \in 1..Len(todo)
  BY <1>1
<1> QED
  BY <1>1, <1>2, <1>3, <1>4, <1>5, <1>6

LEMMA OperationArrives ==
  ASSUME TypeInv, ArriveInv, Operation
  PROVE  ArriveInv'
<1>1. /\ todo # <<>> /\ todo' = Tail(todo) /\ UNCHANGED <<configured, pointer, held>>
      /\ Head(todo) \in Ops
  BY HeadOp DEF TypeInv, Operation, DoPress, DoRelease, DoHold, DoReleaseAll, DoMove, DoMoveTo,
                DoReply, Do
<1>2. /\ 1 \in 1..Len(todo) /\ Head(todo) = todo[1]
      /\ due # NoGoal => NoMoves'
      /\ at' = at /\ goal' = goal => LastOnly'
      /\ at = "last" => NoMoves'
  BY <1>1, TailTodo
<1>3. buttons \in SUBSET Buttons /\ Head(todo).b \in SUBSET Buttons /\ {} \in SUBSET Buttons
      /\ wire \in Seq(OnWire) /\ (due # NoGoal => due \in Goals)
  BY <1>1 DEF Ops, TypeInv, DeviceOK, ArriveInv
<1>4. ASSUME UNCHANGED wire PROVE (Ends(due) => \A g : g = due => Ends(g)')
  BY <1>1, <1>4 DEF Ends, Rests, Mouse, Reached
<1>5. ASSUME UNCHANGED <<at, moveVars, due>>,
             \/ UNCHANGED wire
             \/ configured /\ \E b \in SUBSET Buttons : wire' = Append(wire, Report(b, Here))
      PROVE  ArriveInv'
  <2>1. Ends(due) => Ends(due)'
    <3> SUFFICES ASSUME Ends(due) PROVE Ends(due)'
      OBVIOUS
    <3>1. CASE UNCHANGED wire
      BY <1>1, <1>5, <3>1 DEF Ends, Rests, Mouse, Reached
    <3>2. ASSUME NEW b \in SUBSET Buttons, wire' = Append(wire, Report(b, Here))
          PROVE  Ends(due)'
      <4>1. PICK g : g = due
        OBVIOUS
      <4>2. Ends(g)'
        BY <1>1, <1>3, <3>2, <4>1, RestEnds
      <4> QED
        BY <1>5, <4>1, <4>2 DEF Ends, Reached
    <3> QED
      BY <1>5, <3>1, <3>2
  <2>2. goal' = goal /\ at' = at /\ due' = due
    BY <1>5 DEF moveVars
  <2>3. ~configured' => wire' = <<>>
    BY <1>1, <1>5 DEF ArriveInv
  <2> QED
    BY <1>2, <2>1, <2>2, <2>3 DEF ArriveInv
<1>6. ASSUME NEW b \in SUBSET Buttons, SendReport(b, Here), UNCHANGED <<at, moveVars, due>>
      PROVE  ArriveInv'
  BY <1>5, <1>6 DEF SendReport, BankFree
<1>7. ASSUME NEW b \in SUBSET Buttons, Set(b), UNCHANGED <<at, moveVars, due>>
      PROVE  ArriveInv'
  BY <1>5, <1>6, <1>7 DEF Set
<1>8. CASE DoPress
  BY <1>3, <1>7, <1>8 DEF DoPress, Do
<1>9. CASE DoRelease
  <2>1. buttons \ Head(todo).b \in SUBSET Buttons
    BY <1>3
  <2> QED
    BY <1>7, <1>9, <2>1 DEF DoRelease, Do
<1>10. CASE DoHold
  BY <1>3, <1>6, <1>10 DEF DoHold, Do
<1>11. CASE DoReleaseAll
  BY <1>3, <1>6, <1>11 DEF DoReleaseAll, Do
<1>12. CASE DoMove
  <2>1. /\ Head(todo).op = "move" /\ SendReport(buttons, Head(todo).d)
        /\ UNCHANGED <<buttons, at, moveVars, due>>
    BY <1>12 DEF DoMove, Do
  <2>2. due = NoGoal /\ due' = NoGoal
    BY <1>2, <2>1 DEF ArriveInv, NoMoves
  <2>3. ~configured' => wire' = <<>>
    BY <1>1, <2>1 DEF ArriveInv, SendReport, BankFree
  <2>4. goal' = goal /\ at' = at
    BY <2>1 DEF moveVars
  <2> QED
    BY <1>2, <2>2, <2>3, <2>4 DEF ArriveInv
<1>13. CASE DoMoveTo
  <2> DEFINE r == [dev |-> "AbsoluteMouse", b |-> {}, d |-> Head(todo).d]
  <2>1. /\ Head(todo).op = "moveTo" /\ UNCHANGED <<buttons, sent, at, moveVars>>
        /\ \/ ~BankFree /\ UNCHANGED wire /\ due' = NoGoal
           \/ BankFree /\ wire' = Append(wire, r) /\ due' = IF at = "last" THEN goal ELSE NoGoal
    BY <1>13 DEF DoMoveTo, Do
  <2>2. Head(todo).d \in Axes
    BY <1>1, <2>1 DEF Ops
  <2>3. r \in OnWire /\ r.dev = "AbsoluteMouse" /\ r.d = Head(todo).d
    BY <2>2 DEF OnWire
  <2> HIDE DEF r
  <2>4. goal' = goal /\ at' = at
    BY <2>1 DEF moveVars
  <2>5. ~configured' => wire' = <<>>
    BY <1>1, <2>1 DEF ArriveInv, BankFree
  <2>6. CASE due' = NoGoal
    BY <1>2, <2>4, <2>5, <2>6 DEF ArriveInv
  <2>7. CASE due' # NoGoal
    <3>1. at = "last" /\ due' = goal /\ wire' = Append(wire, r)
      BY <2>1, <2>7
    <3>2. r.d = Units(goal)
      BY <1>2, <2>1, <2>3, <3>1 DEF ArriveInv, LastOnly
    <3>3. goal \in Goals
      BY <3>1 DEF TypeInv, MoverOK, PlaceOK
    <3>4. Ends(due)'
      <4>1. PICK g : g = goal
        OBVIOUS
      <4>2. Ends(g)'
        BY <1>3, <2>3, <3>1, <3>2, <4>1, JumpEnds
      <4> QED
        BY <3>1, <4>1, <4>2 DEF Ends, Reached
    <3> QED
      BY <1>2, <2>4, <2>5, <3>1, <3>3, <3>4 DEF ArriveInv
  <2> QED
    BY <2>6, <2>7
<1>14. CASE DoReply
  <2>1. /\ UNCHANGED <<buttons, wire, sent, due>>
        /\ \/ at = "wait" /\ at' \in {"look", "move"} /\ goal' = goal
           \/ at = "last" /\ at' = "idle" /\ Forget
           \/ UNCHANGED <<at, moveVars>>
    BY <1>14 DEF DoReply, Do
  <2>2. CASE UNCHANGED <<at, moveVars>>
    BY <1>5, <2>1, <2>2
  <2>3. CASE at = "wait" /\ at' \in {"look", "move"} /\ goal' = goal
    <3>1. due = NoGoal /\ due' = NoGoal
      BY <2>1, <2>3 DEF ArriveInv
    <3> QED
      BY <1>1, <2>1, <2>3, <3>1 DEF ArriveInv, LastOnly
  <2>4. CASE at = "last" /\ at' = "idle"
    <3>1. due' = due /\ (Ends(due) => Ends(due)')
      BY <1>1, <2>1 DEF Ends, Rests, Mouse, Reached
    <3> QED
      BY <1>1, <1>2, <2>1, <2>4, <3>1 DEF ArriveInv, LastOnly
  <2> QED
    BY <2>1, <2>2, <2>3, <2>4
<1> QED
  BY <1>8, <1>9, <1>10, <1>11, <1>12, <1>13, <1>14 DEF Operation

(* A command of another thread: it moves the pointer only if no MoveTo has  *)
(* claimed anything.                                                        *)
LEMMA BeginArrives ==
  ASSUME TypeInv, ArriveInv, NEW ops \in Seq(Ops), Begin(ops),
         \/ due' = NoGoal
         \/ due' = due /\ \A i \in 1..Len(ops) : ops[i].op \notin {"move", "moveTo"}
  PROVE  ArriveInv'
<1>1. /\ at' = at /\ goal' = goal /\ at # "last" /\ todo' = ops
      /\ UNCHANGED <<configured, wire, pointer>>
  BY DEF Begin, moveVars
<1>2. Ends(due) /\ due' = due => Ends(due)'
  BY <1>1 DEF Ends, Rests, Mouse, Reached
<1> QED
  BY <1>1, <1>2 DEF ArriveInv, LastOnly, NoMoves

LEMMA ButtonArrives ==
  ASSUME TypeInv, ArriveInv, ButtonCommand
  PROVE  ArriveInv'
<1> DEFINE Still(ops) == ops \in Seq(Ops) /\ \A i \in 1..Len(ops) : ops[i].op \notin {"move", "moveTo"}
<1>1. \A o \in Ops : Len(<<o>>) = 1 /\ <<o>>[1] = o /\ <<o>> \in Seq(Ops)
  OBVIOUS
<1>2. \A o \in Ops : \A p \in Ops :
        Len(<<o, p>>) = 2 /\ <<o, p>>[1] = o /\ <<o, p>>[2] = p /\ <<o, p>> \in Seq(Ops)
  OBVIOUS
<1>3. ASSUME NEW o \in {"press", "release", "hold", "releaseAll"}, NEW b \in SUBSET Buttons
      PROVE  Op(o, b, Here) \in Ops /\ Op(o, b, Here).op \notin {"move", "moveTo"}
  BY OpTyped DEF Op
<1>4. ASSUME NEW o, o \in Ops, o.op \notin {"move", "moveTo"} PROVE Still(<<o>>)
  BY <1>1, <1>4
<1>5. ASSUME NEW b \in Buttons
      PROVE  Still(Press(b)) /\ Still(Release(b)) /\ Still(Click(b)) /\ Still(Click(b) \o Click(b))
  <2>1. {b} \in SUBSET Buttons /\ {} \in SUBSET Buttons
    OBVIOUS
  <2>2. Still(Press(b)) /\ Still(Release(b))
    BY <1>3, <1>4, <2>1 DEF Press, Release
  <2>3. /\ Click(b) \in Seq(Ops) /\ Len(Click(b)) = 2
        /\ \A i \in 1..2 : Click(b)[i].op \notin {"move", "moveTo"}
    <3> DEFINE o == Op("hold", {b}, Here)
               p == Op("hold", {}, Here)
    <3>1. o \in Ops /\ p \in Ops /\ o.op \notin {"move", "moveTo"} /\ p.op \notin {"move", "moveTo"}
      BY <1>3, <2>1
    <3>2. Click(b) = <<o, p>>
      BY DEF Click
    <3> HIDE DEF o, p
    <3>3. \A i \in 1..2 : i = 1 \/ i = 2
      OBVIOUS
    <3> QED
      BY <1>2, <3>1, <3>2, <3>3
  <2>4. Still(Click(b) \o Click(b))
    <3> DEFINE c == Click(b)
    <3>1. /\ c \o c \in Seq(Ops) /\ Len(c \o c) = Len(c) + Len(c)
          /\ \A i \in 1..Len(c) + Len(c) : (c \o c)[i] = IF i <= Len(c) THEN c[i] ELSE c[i - Len(c)]
      BY <2>3, ConcatProperties
    <3> HIDE DEF c
    <3>2. Len(c) = 2 /\ \A i \in 1..2 : c[i].op \notin {"move", "moveTo"}
      BY <2>3 DEF c
    <3>3. ASSUME NEW i \in 1..4 PROVE (c \o c)[i].op \notin {"move", "moveTo"}
      <4>1. CASE i <= 2
        BY <3>1, <3>2, <4>1
      <4>2. CASE ~(i <= 2)
        <5>1. i - 2 \in 1..2
          BY <4>2
        <5> QED
          BY <3>1, <3>2, <4>2, <5>1
      <4> QED
        BY <4>1, <4>2
    <3> QED
      BY <3>1, <3>2, <3>3 DEF c
  <2> QED
    BY <2>2, <2>3, <2>4
<1>6. Still(<<Op("releaseAll", {}, Here)>>)
  <2>1. {} \in SUBSET Buttons
    OBVIOUS
  <2> QED
    BY <1>3, <1>4, <2>1
<1>7. PICK ops : Begin(ops) /\ Still(ops)
  BY <1>5, <1>6 DEF ButtonCommand
<1> QED
  BY <1>7, BeginArrives DEF ButtonCommand

LEMMA MoveCommandArrives ==
  ASSUME TypeInv, ArriveInv, MoveCommand
  PROVE  ArriveInv'
<1>1. \A d \in {-RMax - 1, RMax + 1} : MoveToR(<<d, d>>) \in Seq(Ops)
  <2>1. \A d \in {-RMax - 1, RMax + 1} : d \in Int
    BY ConstantsTyped
  <2> QED
    BY <2>1, MoveTyped
<1>2. MoveToR(Here) \in Seq(Ops)
  BY MoveTyped, ConstantsTyped
<1> QED
  BY <1>1, <1>2, MoveToTyped, BeginArrives DEF MoveCommand

(* The steps of MoveTo that are not about to return claim nothing.          *)
LEMMA StepArrives ==
  ASSUME TypeInv, ArriveInv, MoveTo \/ MoveToStep
  PROVE  ArriveInv'
<1>1. ASSUME UNCHANGED <<configured, wire>>, due' = NoGoal, at' # "last" PROVE ArriveInv'
  BY <1>1 DEF ArriveInv, LastOnly
<1>2. at \notin {"idle", "last"} => due = NoGoal
  BY DEF ArriveInv
<1>3. CASE MoveTo
  BY <1>1, <1>3 DEF MoveTo, devVars
<1>4. CASE LookNear \/ LookFar \/ LookEnough
  BY <1>1, <1>2, <1>4 DEF LookNear, LookFar, LookEnough, devVars
<1>5. CASE LookArrived
  <2>1. /\ at' = "idle" /\ UNCHANGED <<devVars, pointer>> /\ at = "look" /\ pointer = goal
        /\ due' = IF ret = 0 /\ wire = <<>> /\ todo = <<>> THEN goal ELSE NoGoal
    BY <1>5 DEF LookArrived
  <2>2. CASE due' = NoGoal
    BY <1>1, <2>1, <2>2 DEF devVars
  <2>3. CASE due' = goal /\ wire = <<>> /\ todo = <<>>
    <3>1. goal \in Goals /\ wire' = <<>> /\ todo' = <<>> /\ pointer' = goal
      BY <2>1, <2>3 DEF devVars, TypeInv, MoverOK, PlaceOK
    <3>2. Len(wire') = 0 /\ Len(todo') = 0
      BY <3>1
    <3>3. Ends(due)'
      BY <2>3, <3>1, <3>2 DEF Ends, Reached
    <3> QED
      BY <2>1, <2>3, <3>1, <3>2, <3>3 DEF ArriveInv, LastOnly, NoMoves, devVars
  <2> QED
    BY <2>1, <2>2, <2>3
<1>6. CASE IssueMove
  BY <1>1, <1>2, <1>6 DEF IssueMove, Issue
<1>7. CASE IssueMoveTo
  <2>1. /\ at = "final" /\ at' = "last" /\ UNCHANGED <<configured, wire, due>> /\ goal' = goal
        /\ todo' = MoveToA(goal) \o Reply
    BY <1>7 DEF IssueMoveTo, Issue, moveVars
  <2>2. due = NoGoal /\ goal \in Goals
    BY <1>2, <2>1 DEF TypeInv, MoverOK, PlaceOK
  <2> DEFINE o == Op("moveTo", {}, Units(goal))
             p == Op("reply", {}, Here)
  <2>3. o.op = "moveTo" /\ o.d = Units(goal) /\ p.op = "reply" /\ p \in Ops
    BY OpTyped DEF Op
  <2>4. MoveToA(goal) \in Seq(Ops) /\ MoveToA(goal) = <<o>> /\ Reply = <<p>>
    BY <2>2, MoveToTyped DEF MoveToA, Reply
  <2> HIDE DEF o, p
  <2>5. Len(<<o>>) = 1 /\ <<o>>[1] = o /\ Len(<<p>>) = 1 /\ <<p>>[1] = p /\ <<p>> \in Seq(Ops)
    BY <2>3
  <2>6. /\ Len(todo') = 2
        /\ \A i \in 1..2 : todo'[i] = IF i <= 1 THEN <<o>>[i] ELSE <<p>>[i - 1]
    BY <2>1, <2>4, <2>5, ConcatProperties
  <2>7. \A i \in 1..Len(todo') : (i = 1 /\ todo'[i] = o) \/ todo'[i] = p
    <3> SUFFICES ASSUME NEW i \in 1..2 PROVE (i = 1 /\ todo'[i] = o) \/ todo'[i] = p
      BY <2>6
    <3>1. CASE i = 1
      BY <2>5, <2>6, <3>1
    <3>2. CASE i = 2
      BY <2>5, <2>6, <3>2
    <3> QED
      BY <3>1, <3>2
  <2>8. LastOnly'
    BY <2>1, <2>3, <2>7 DEF LastOnly
  <2> QED
    BY <2>1, <2>2, <2>8 DEF ArriveInv
<1>8. CASE MoveFails
  <2>1. at' # "last" /\ due = NoGoal /\ UNCHANGED <<devVars, due>>
    BY <1>2, <1>8 DEF MoveFails
  <2> QED
    BY <1>1, <2>1 DEF devVars
<1>9. CASE MoveToFails
  BY <1>1, <1>9 DEF MoveToFails, devVars
<1> QED
  BY <1>3, <1>4, <1>5, <1>6, <1>7, <1>8, <1>9 DEF MoveToStep

LEMMA NextArrives == TypeInv /\ ArriveInv /\ [Next]_vars => ArriveInv'
<1> SUFFICES ASSUME TypeInv, ArriveInv, [Next]_vars PROVE ArriveInv'
  OBVIOUS
<1>1. CASE HostTakes
  <2>1. /\ wire # <<>> /\ UNCHANGED <<todo, configured, at, goal, due>>
    BY <1>1 DEF HostTakes, moveVars
  <2>2. ASSUME due # NoGoal PROVE Ends(due)'
    <3>1. PICK g \in Goals : g = due /\ Ends(g)
      BY <2>2 DEF ArriveInv
    <3>2. Ends(g)'
      BY <1>1, <3>1, TakenEnds
    <3> QED
      BY <2>1, <3>1, <3>2 DEF Ends, Reached
  <2> QED
    BY <2>1, <2>2 DEF ArriveInv, LastOnly, NoMoves
<1>2. ASSUME UNCHANGED <<at, goal>>, wire' = <<>>, \/ due' = NoGoal
                                                   \/ due' = due /\ wire = <<>> /\ UNCHANGED pointer,
             \/ UNCHANGED todo
             \/ todo' = <<>> /\ due' = NoGoal
      PROVE  ArriveInv'
  <2>1. Len(<<>>) = 0
    OBVIOUS
  <2>2. LastOnly'
    BY <1>2, <2>1 DEF ArriveInv, LastOnly
  <2>3. ASSUME due' # NoGoal PROVE Ends(due)' /\ NoMoves'
    BY <1>2, <2>1, <2>3 DEF ArriveInv, Ends, Reached, NoMoves, Rests, Mouse
  <2> QED
    BY <1>2, <2>2, <2>3 DEF ArriveInv
<1>3. CASE Reset \/ BusReset
  BY <1>2, <1>3 DEF Reset, BusReset, moveVars
<1>4. CASE Configure
  BY <1>2, <1>4 DEF Configure, moveVars, ArriveInv
<1>5. CASE UNCHANGED vars
  BY <1>5 DEF vars, devVars, moveVars, ArriveInv, LastOnly, NoMoves, Ends, Rests, Mouse, Reached
<1> QED
  BY <1>1, <1>3, <1>4, <1>5, ButtonArrives, MoveCommandArrives, OperationArrives, StepArrives
     DEF Next

(* On every screen and from wherever the rounds have left the pointer, a    *)
(* MoveTo that returned 0 leaves it at its goal or one column short of it.  *)
THEOREM MoveToReaches == Spec => []MoveToArrives
<1>1. ASSUME ArriveInv PROVE MoveToArrives
  <2> SUFFICES ASSUME due # NoGoal, wire = <<>> PROVE Reached(due)
    BY DEF MoveToArrives
  <2>1. Len(wire) = 0
    OBVIOUS
  <2> QED
    BY <1>1, <2>1 DEF ArriveInv, Ends
<1>2. Init => ArriveInv
  BY DEF Init, ArriveInv, LastOnly
<1> QED
  BY <1>1, <1>2, InitTypeInv, NextTypeInv, NextArrives, PTL DEF Spec
=============================================================================
