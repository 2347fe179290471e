----------------------------- MODULE MouseReport -----------------------------
(***************************************************************************)
(* The mouse half: the buttons of MouseAPI and the reports of Mouse and    *)
(* AbsoluteMouse in one IN endpoint, the mouse commands of loop()          *)
(* (MouseProcess), the pointer and the buttons of the host, and MoveTo of  *)
(* the DLL, which steers the pointer by reading it back.                   *)
(*                                                                         *)
(* A position and a distance are pairs.  The wheel is left out: a wheel    *)
(* report is a move by nothing.  While MoveTo runs, other threads press    *)
(* and release buttons but do not move the pointer.                        *)
(***************************************************************************)
EXTENDS Integers, Sequences

CONSTANTS
  Buttons,   \* MOUSE_LEFT, MOUSE_RIGHT, MOUSE_MIDDLE
  Width,     \* the screen is Width by Height pixels
  Height,
  PIXEL,     \* KYLIN_MOUSE_MOVE_PIXEL: 30
  RMax,      \* KYLIN_MOUSE_R_X_MAX, KYLIN_MOUSE_R_Y_MAX: 127
  AMax,      \* KYLIN_MOUSE_X_MAX, KYLIN_MOUSE_Y_MAX: 32767
  Gains,     \* what the pointer speed of the host makes of a distance of 1
  Banks,     \* banks of the endpoint
  Goals,     \* positions the callers ask for
  NoGoal

ASSUME MouseAssumption ==
  /\ Width \in Nat \ {0} /\ Height \in Nat \ {0}
  /\ PIXEL \in Nat \ {0} /\ RMax \in Nat /\ PIXEL <= RMax
  /\ AMax \in Nat /\ Width <= AMax /\ 2 * Height <= AMax
  /\ Gains \subseteq Nat /\ Banks \in Nat \ {0}
  /\ Goals \subseteq (0..(Width - 1)) \X (0..(Height - 1))
  /\ NoGoal \notin Goals

VARIABLES
  buttons,     \* Mouse._buttons; AbsoluteMouse never presses any
  todo,        \* operations of the current command
  configured,  \* _usbConfiguration
  wire,        \* reports in the endpoint, oldest first
  pointer,     \* the cursor of the host
  held,        \* the buttons the host holds
  at,          \* MoveTo: "idle", "look", "move", "wait", "final", "last"
  goal,        \* x, y
  step,        \* the distance of one MoveToR
  count,       \* MoveToR calls left in this round
  bulk,        \* they are the while loop, which counts errors
  ccount, err_count, ret,
  sent,        \* history: the last report of Mouse went into the endpoint
  due          \* history: where a MoveTo that returned 0 has to leave the pointer

devVars == <<buttons, todo, configured, wire, sent>>
moveVars == <<goal, step, count, bulk, ccount, err_count, ret>>
vars == <<devVars, pointer, held, at, moveVars, due>>

Positions == (0..(Width - 1)) \X (0..(Height - 1))
Here == <<0, 0>>

Abs(n) == IF n < 0 THEN -n ELSE n
constrain(n, lo, hi) == IF n < lo THEN lo ELSE IF n > hi THEN hi ELSE n

-----------------------------------------------------------------------------
(* MoveTo returns: its locals are gone, due keeps what it claimed.          *)
Forget ==
  /\ goal' = NoGoal /\ step' = Here /\ count' = 0 /\ bulk' = FALSE
  /\ ccount' = 0 /\ err_count' = 0 /\ ret' = 0

(* The commands of MouseProcess as lists of operations. *)

Op(o, b, d) == [op |-> o, b |-> b, d |-> d]

Press(b) == <<Op("press", {b}, Here)>>
Release(b) == <<Op("release", {b}, Here)>>
Click(b) == <<Op("hold", {b}, Here), Op("hold", {}, Here)>>

(* MoveToR bounds what it sends. *)
MoveToR(d) == <<Op("move", {}, <<constrain(d[1], -RMax, RMax),
                                 constrain(d[2], -RMax, RMax)>>)>>

(* MoveToA sends units of the absolute axes; the cast to short truncates.   *)
(* The cast comes before constrain, so a goal far off the screen wraps: the *)
(* goals here are on it.                                                    *)
Unit(n, size, offset) == constrain((AMax * n) \div size + offset, 0, AMax)

(* Mutant: the truncated unit is sent as it is. *)
UnitsMutant(p) == <<Unit(p[1], Width, 0), Unit(p[2], Height, 0)>>
Units(p) == <<Unit(p[1], Width, 1), Unit(p[2], Height, 2)>>

MoveToA(p) == <<Op("moveTo", {}, Units(p))>>
Reply == <<Op("reply", {}, Here)>>

(* A command of another thread; the critical section keeps them apart.      *)
Begin(ops) ==
  /\ todo = <<>> /\ at \notin {"wait", "last"}
  /\ todo' = ops
  /\ UNCHANGED <<buttons, configured, wire, sent, pointer, held, at, moveVars>>

ButtonCommand ==
  /\ \/ \E b \in Buttons : \/ Begin(Press(b))
                           \/ Begin(Release(b))
                           \/ Begin(Click(b))
                           \/ Begin(Click(b) \o Click(b))
     \/ Begin(<<Op("releaseAll", {}, Here)>>)
  /\ UNCHANGED due

MoveCommand ==
  /\ at = "idle"
  /\ \/ \E d \in {-RMax - 1, RMax + 1} : Begin(MoveToR(<<d, d>>))
     \/ \E p \in Goals : Begin(MoveToA(p))
     \/ Begin(MoveToR(Here))
  /\ due' = NoGoal

-----------------------------------------------------------------------------
(* One operation of the current command. *)

BankFree == configured /\ Len(wire) < Banks

Report(b, d) == [dev |-> "Mouse", b |-> b, d |-> d]

(* Mutant: USB_Send does not ask for room.                                  *)
SendReportMutant(b, d) ==
  IF configured THEN wire' = Append(wire, Report(b, d)) /\ sent' = TRUE
                ELSE sent' = FALSE /\ UNCHANGED wire

(* MouseAPI::move with the buttons b: the report of Mouse, or nothing.  The *)
(* HID library, which is not in the repository, sends the report id and the *)
(* data with a USB_Send each: that they get in together is assumed.         *)
SendReport(b, d) ==
  \/ BankFree /\ wire' = Append(wire, Report(b, d)) /\ sent' = TRUE
  \/ ~BankFree /\ sent' = FALSE /\ UNCHANGED wire

Do(o, A) ==
  /\ todo # <<>> /\ Head(todo).op = o
  /\ todo' = Tail(todo)
  /\ A
  /\ UNCHANGED <<configured, pointer, held>>

(* Mutant: the buttons change, the report is left to the next move. *)
SetMutant(b) ==
  /\ buttons' = b
  /\ UNCHANGED <<wire, sent>>

(* MouseAPI::buttons *)
Set(b) ==
  /\ buttons' = b
  /\ IF b # buttons THEN SendReport(b, Here) ELSE UNCHANGED <<wire, sent>>

DoPress ==
  Do("press", Set(buttons \cup Head(todo).b) /\ UNCHANGED <<at, moveVars, due>>)
DoRelease ==
  Do("release", Set(buttons \ Head(todo).b) /\ UNCHANGED <<at, moveVars, due>>)

(* Half a click: the buttons are replaced, the report is sent.              *)
DoHold == Do("hold", /\ buttons' = Head(todo).b
                     /\ SendReport(Head(todo).b, Here)
                     /\ UNCHANGED <<at, moveVars, due>>)

(* Mutant: like release, nothing is sent if no button is down.              *)
DoReleaseAllMutant == Do("releaseAll", Set({}) /\ UNCHANGED <<at, moveVars, due>>)

DoReleaseAll == Do("releaseAll", /\ buttons' = {}
                                 /\ SendReport({}, Here)
                                 /\ UNCHANGED <<at, moveVars, due>>)

DoMove == Do("move", /\ SendReport(buttons, Head(todo).d)
                     /\ UNCHANGED <<buttons, at, moveVars, due>>)

(* AbsoluteMouseAPI::moveTo; a report that is given up leaves the pointer   *)
(* where it is.                                                             *)
DoMoveTo == Do("moveTo", /\ IF BankFree
                            THEN /\ wire' = Append(wire, [dev |-> "AbsoluteMouse", b |-> {},
                                                          d |-> Head(todo).d])
                                 /\ due' = IF at = "last" THEN goal ELSE NoGoal
                            ELSE UNCHANGED wire /\ due' = NoGoal
                         /\ UNCHANGED <<buttons, sent, at, moveVars>>)

(* The reply of a MoveToR or MoveToA reaches MoveTo if it still waits; the  *)
(* last one ends it.  A reply nobody waits for is dropped here; what it may *)
(* do to the next call (read_pending) is the subject of CommandLink.        *)
DoReply == Do("reply",
  /\ \/ /\ at = "wait" /\ at' = IF count = 0 THEN "look" ELSE "move"
        /\ ret' = 0 /\ UNCHANGED <<goal, step, count, bulk, ccount, err_count>>
     \/ at = "last" /\ at' = "idle" /\ Forget
     \/ at \notin {"wait", "last"} /\ UNCHANGED <<at, moveVars>>
  /\ UNCHANGED <<buttons, wire, sent, due>>)

Operation == DoPress \/ DoRelease \/ DoHold \/ DoReleaseAll \/ DoMove \/ DoMoveTo \/ DoReply

-----------------------------------------------------------------------------
(* The host. *)

Pos(p) == <<constrain(p[1], 0, Width - 1), constrain(p[2], 0, Height - 1)>>

(* A report of Mouse moves the pointer as its speed makes of the distance;  *)
(* a report of AbsoluteMouse, a device of its own, sets it to the pixel its *)
(* units fall on.                                                           *)
Pixels(u) == <<(u[1] * Width) \div (AMax + 1), (u[2] * Height) \div (AMax + 1)>>

HostTakes ==
  /\ wire # <<>> /\ wire' = Tail(wire)
  /\ LET r == Head(wire) IN
       \/ /\ r.dev = "Mouse" /\ held' = r.b
          /\ \E g \in Gains : pointer' = Pos(<<pointer[1] + g * r.d[1], pointer[2] + g * r.d[2]>>)
       \/ r.dev = "AbsoluteMouse" /\ pointer' = Pixels(r.d) /\ UNCHANGED held
  /\ UNCHANGED <<buttons, todo, configured, sent, at, moveVars, due>>

(* setup() tries to send a report while the device is not configured yet.   *)
Reset ==
  /\ buttons' = {} /\ todo' = <<>> /\ configured' = FALSE /\ wire' = <<>>
  /\ held' = {} /\ sent' = FALSE /\ due' = NoGoal
  /\ UNCHANGED <<pointer, at, moveVars>>

BusReset ==
  /\ configured /\ configured' = FALSE
  /\ wire' = <<>> /\ held' = {} /\ sent' = FALSE
  /\ due' = IF wire = <<>> THEN due ELSE NoGoal
  /\ UNCHANGED <<buttons, todo, pointer, at, moveVars>>

Configure ==
  /\ ~configured /\ configured' = TRUE /\ wire' = <<>>
  /\ UNCHANGED <<buttons, todo, sent, pointer, held, at, moveVars, due>>

-----------------------------------------------------------------------------
(* MoveTo of kylin.c. *)

MoveTo ==
  /\ at = "idle"
  /\ \E p \in Goals : goal' = p
  /\ at' = "look" /\ ret' = 0 /\ ccount' = 0 /\ err_count' = 0
  /\ step' = Here /\ count' = 0 /\ bulk' = FALSE
  /\ due' = NoGoal
  /\ UNCHANGED <<devVars, pointer, held>>

xo == goal[1] - pointer[1]
yo == goal[2] - pointer[2]
Near == Abs(xo) <= PIXEL /\ Abs(yo) <= PIXEL

(* The number of MoveToR calls of a round, and the distance of each.        *)
Major == IF Abs(xo) > Abs(yo) THEN Abs(xo) ELSE Abs(yo)
Calls == Major \div PIXEL
Signed(n, o) == IF o >= 0 THEN n ELSE -n
StepTo == IF Abs(xo) > Abs(yo)
          THEN <<Signed(PIXEL, xo), Signed(Abs(yo) \div Calls, yo)>>
          ELSE <<Signed(Abs(xo) \div Calls, xo), Signed(PIXEL, yo)>>

MoreRounds == ccount < 3 /\ err_count <= 3

(* The pointer is read; reports may still be under way to it.               *)
LookArrived ==
  /\ at = "look" /\ MoreRounds /\ pointer = goal
  /\ at' = "idle" /\ Forget
  /\ due' = IF ret = 0 /\ wire = <<>> /\ todo = <<>> THEN goal ELSE NoGoal
  /\ UNCHANGED <<devVars, pointer, held>>

LookNear ==
  /\ at = "look" /\ MoreRounds /\ pointer # goal /\ Near
  /\ at' = "move" /\ step' = <<xo, yo>> /\ count' = 1 /\ bulk' = FALSE
  /\ ccount' = ccount + 1
  /\ UNCHANGED <<devVars, pointer, held, goal, err_count, ret, due>>

LookFar ==
  /\ at = "look" /\ MoreRounds /\ ~Near
  /\ at' = "move" /\ step' = StepTo /\ count' = Calls /\ bulk' = TRUE
  /\ ccount' = ccount + 1
  /\ UNCHANGED <<devVars, pointer, held, goal, err_count, ret, due>>

LookEnough ==
  /\ at = "look" /\ ~MoreRounds
  /\ at' = "final"
  /\ UNCHANGED <<devVars, pointer, held, moveVars, due>>

(* A MoveToR or the MoveToA goes out.                                       *)
Issue(from, wait, ops) ==
  /\ at = from /\ todo = <<>>
  /\ at' = wait /\ todo' = ops \o Reply
  /\ UNCHANGED <<buttons, configured, wire, sent, pointer, held, due>>

IssueMove ==
  /\ Issue("move", "wait", MoveToR(step))
  /\ count' = count - 1
  /\ step' = IF count' = 0 THEN Here ELSE step
  /\ UNCHANGED <<goal, bulk, ccount, err_count, ret>>

IssueMoveTo == Issue("final", "last", MoveToA(goal)) /\ UNCHANGED moveVars

(* Mutant: the reply is waited for without a limit.                         *)
MoveFailsMutant ==
  /\ at = "move" /\ count' = count - 1
  /\ at' = IF count' = 0 THEN "look" ELSE "move"
  /\ step' = IF count' = 0 THEN Here ELSE step
  /\ ret' = -1
  /\ err_count' = IF bulk THEN err_count + 1 ELSE err_count
  /\ UNCHANGED <<devVars, pointer, held, goal, bulk, ccount, due>>

(* A call fails, before or after its command reached the device.            *)
MoveFails ==
  /\ \/ at = "move" /\ count' = count - 1
     \/ at = "wait" /\ UNCHANGED count
  /\ at' = IF count' = 0 THEN "look" ELSE "move"
  /\ step' = IF count' = 0 THEN Here ELSE step
  /\ ret' = -1
  /\ err_count' = IF bulk THEN err_count + 1 ELSE err_count
  /\ UNCHANGED <<devVars, pointer, held, goal, bulk, ccount, due>>

MoveToFails ==
  /\ at \in {"final", "last"}
  /\ at' = "idle" /\ due' = NoGoal /\ Forget
  /\ UNCHANGED <<devVars, pointer, held>>

MoveToStep ==
  \/ LookArrived \/ LookNear \/ LookFar \/ LookEnough
  \/ IssueMove \/ IssueMoveTo \/ MoveFails \/ MoveToFails

-----------------------------------------------------------------------------
Init ==
  /\ buttons = {} /\ todo = <<>> /\ configured = FALSE /\ wire = <<>>
  /\ pointer = Here /\ held = {}
  /\ at = "idle" /\ goal = NoGoal /\ step = Here /\ count = 0 /\ bulk = FALSE
  /\ ccount = 0 /\ err_count = 0 /\ ret = 0
  /\ sent = FALSE /\ due = NoGoal

Next ==
  \/ ButtonCommand \/ MoveCommand \/ Operation
  \/ HostTakes \/ Reset \/ BusReset \/ Configure
  \/ MoveTo \/ MoveToStep

Spec == Init /\ [][Next]_vars

(* A calling thread runs, and a call that waits ends after 3 s at the       *)
(* latest.  Nothing is assumed of the device.                               *)
FairSpec == Spec /\ WF_vars(MoveToStep)

-----------------------------------------------------------------------------
(* Properties. *)

Places == {"idle", "look", "move", "wait", "final", "last"}
Distances == ((-Width)..Width) \X ((-Height)..Height)
Reach == ((-RMax)..RMax) \X ((-RMax)..RMax)

(* Types: reports fit the endpoint and the fields of a report, the pointer  *)
(* stays on the screen, and a MoveToR of a round is one still counted.      *)
TypeOK ==
  /\ buttons \subseteq Buttons /\ held \subseteq Buttons
  /\ pointer \in Positions
  /\ goal \in IF at = "idle" THEN {NoGoal} ELSE Goals
  /\ \A i \in DOMAIN wire :
       \/ wire[i] \in [dev : {"Mouse"}, b : SUBSET Buttons, d : Reach]
       \/ wire[i] \in [dev : {"AbsoluteMouse"}, b : {{}}, d : (0..AMax) \X (0..AMax)]
  /\ Len(wire) <= Banks
  /\ configured \in BOOLEAN /\ sent \in BOOLEAN /\ bulk \in BOOLEAN
  /\ at \in Places /\ step \in Distances
  /\ count \in Nat /\ (at = "move" => count > 0)
  /\ ccount \in 0..3 /\ err_count \in Nat /\ ret \in {-1, 0}
  /\ due \in Goals \cup {NoGoal}

(* The buttons the host will hold when it has taken what is on the wire.    *)
Shown ==
  LET S == {i \in DOMAIN wire : wire[i].dev = "Mouse"}
  IN IF S = {} THEN held ELSE wire[CHOOSE i \in S : \A j \in S : j <= i].b

(* At every moment, if the last report of Mouse got into the endpoint, the  *)
(* host holds or is about to hold the buttons of the firmware: a drag over  *)
(* relative and absolute moves keeps its button.                            *)
HostMirrorsButtons == sent => Shown = buttons

(* MouseUpAll, executed while the endpoint takes a report, releases every   *)
(* button of the host, whatever reports were lost before: unlike KeyUpAll   *)
(* it always sends one.                                                     *)
UpAllReleases ==
  [][todo # <<>> /\ Head(todo).op = "releaseAll" /\ todo' = Tail(todo) /\ BankFree
       => Shown' = {}]_vars

(* A unit of the absolute axes is truncated one short of some columns, on a *)
(* screen 1920 wide of every second one; the 2 added to the rows makes up   *)
(* for it.                                                                  *)
Reached(p) == pointer[1] \in {p[1] - 1, p[1]} /\ pointer[2] = p[2]

(* A MoveTo that returned 0 leaves the pointer at its goal, or one column   *)
(* to the left of it, once the reports are taken: over pointer speeds,      *)
(* stale readings, failed steps and the truncation of positions to units,   *)
(* unless it stopped at a reading of the goal with reports still under way, *)
(* or the report of its MoveToA was given up.                               *)
MoveToArrives ==
  due # NoGoal /\ at = "idle" /\ todo = <<>> /\ wire = <<>> => Reached(due)

(* MoveTo always returns: its rounds are counted and its steps fail in the  *)
(* end, whatever the device and the pointer do.                             *)
MoveToEnds == at # "idle" ~> at = "idle"

=============================================================================
