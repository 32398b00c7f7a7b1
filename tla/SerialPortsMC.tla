---------------------------- MODULE SerialPortsMC ----------------------------
(* Instances of SerialPorts small enough for TLC: h has no serial number,   *)
(* a has one.                                                               *)
EXTENDS SerialPorts, TLC
SerialOf == [d \in Devices |-> IF d = "a" THEN "serial" ELSE d]
=============================================================================
