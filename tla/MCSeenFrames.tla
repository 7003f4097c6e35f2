--------------------------- MODULE MCSeenFrames ---------------------------
(* Instances of SeenFrames.tla for TLC. *)
EXTENDS SeenFrames

CONSTANTS s1, s2
=============================================================================
