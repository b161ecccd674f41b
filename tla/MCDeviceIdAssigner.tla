------------------------- MODULE MCDeviceIdAssigner -------------------------
(* Three connections of two known devices and an unknown one.              *)
EXTENDS DeviceIdAssigner, TLC

CONSTANTS c1, c2, c3, d1, d2, stranger

Connections == {c1, c2, c3}
Known == {d1, d2}
AllDevices == Known \cup {stranger}
Symmetry == Permutations(Connections) \cup Permutations(Known)
=============================================================================
