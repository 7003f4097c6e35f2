---------------------------- MODULE MCPeerTable ----------------------------
(* Instances of PeerTable.tla for TLC. *)
EXTENDS PeerTable, TLC

CONSTANTS m1, m2, m3, m4

\* Two clusters that meet, the second across the end of the table.
Clustered == m1 :> 1 @@ m2 :> 1 @@ m3 :> 2 @@ m4 :> 5

\* One battery node.
Sleeps == [m \in {m1, m2, m3, m4} |-> IF m = m2 THEN 1 ELSE 0]
=============================================================================
