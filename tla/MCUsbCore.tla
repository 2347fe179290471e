------------------------------ MODULE MCUsbCore ------------------------------
(* Instances of UsbCore for TLC. *)
EXTENDS UsbCore

CONSTANTS kbd, raw

Hid == {kbd, raw}
Lens == [e \in Hid |-> IF e = kbd THEN 1 ELSE 2]
SerialLens == {1, 3}
Lines == {0, 1}
=============================================================================
