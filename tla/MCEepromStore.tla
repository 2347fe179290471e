--------------------------- MODULE MCEepromStore ---------------------------
(* Instances of EepromStore for TLC: the layout of the firmware (records    *)
(* one behind the other, slots at a stride of their length without the tag  *)
(* word) with values of one to three bytes instead of 8 to 32.              *)
EXTENDS EepromStore

CONSTANTS product, serial, stray

TwoSettings == {product, serial}
OneSetting == {product}
NoSettings == {}
NoStrays == {}
OneStray == {stray}

(* The stray is index 0, one stride before the first string. *)
TagOf(r) ==
  CASE r = WPwd -> 0 [] r = RPwd -> 3 [] r = product -> 6 [] r = serial -> 10
    [] OTHER -> SlotBase - SlotStride
SomeTags == [r \in Settings \cup {WPwd, RPwd} \cup Strays |-> TagOf(r)]
SomeLens == [r \in Settings \cup {WPwd, RPwd} |-> IF r \in Settings THEN 2 ELSE 1]

TwoValues == {<<1>>, <<2>>}
NoStrings == {}
OneString == {<<1>>}
LongAndShort == {<<1>>, <<1, 2>>}

(* Every property is about the time before the first collision. *)
BeforeCollision == ~collided
=============================================================================
