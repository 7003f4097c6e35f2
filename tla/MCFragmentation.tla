-------------------------- MODULE MCFragmentation --------------------------
(* Instances of Fragmentation.tla for TLC. *)
EXTENDS Fragmentation

CONSTANTS s1, s2, app, lwip

\* Only the first sender is reset.
FirstOnce == [s \in Src |-> IF s = s1 THEN 1 ELSE 0]
=============================================================================
