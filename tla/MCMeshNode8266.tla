-------------------------- MODULE MCMeshNode8266 --------------------------
(* Instances of MeshNode8266.tla for TLC. *)
EXTENDS MeshNode8266

CONSTANTS p1, p2, t1, long, cut

\* One topic fits a slot, the other is cut.
OneLong == [t \in {t1, long} |-> IF t = long THEN cut ELSE t]
=============================================================================
