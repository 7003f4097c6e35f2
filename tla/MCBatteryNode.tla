--------------------------- MODULE MCBatteryNode ---------------------------
(* Instances of BatteryNode.tla for TLC. *)
EXTENDS BatteryNode

CONSTANTS c1, c2, c3, p1, p2, p3

\* A short message, one that leaves no room for another, and one that is too long.
Messages == {[id |-> 1, len |-> 1], [id |-> 2, len |-> 2], [id |-> 3, len |-> 3]}
=============================================================================
