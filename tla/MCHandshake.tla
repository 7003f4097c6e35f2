---------------------------- MODULE MCHandshake ----------------------------
(* Instances of Handshake.tla for TLC: up to four nodes, g the gateway. *)
EXTENDS Handshake, TLC

CONSTANTS a, b, g, d

\* Everybody hears everybody.
Clique == {e \in Node \X Node : e[1] # e[2]}

\* a hears b and g, g hears b, b hears a: the exchanges of a and b can cross.
Crossing == {<<a, b>>, <<a, g>>, <<g, b>>, <<b, a>>}

\* As Crossing, and a hears d, which sends beacons and answers nothing.
CrossingAndMute == Crossing \cup {<<a, d>>}

\* Bounds on the ephemerals a node draws.
EachThrice == [n \in Node |-> 3]
EachFive == [n \in Node |-> 5]
BusyA == [n \in Node |-> IF n = a THEN 3 ELSE IF n = d THEN 0 ELSE 1]
=============================================================================
