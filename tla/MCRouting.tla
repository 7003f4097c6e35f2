----------------------------- MODULE MCRouting -----------------------------
(* Instances of Routing.tla for TLC. *)
EXTENDS Routing

CONSTANTS n1, n2, n3, n4

\* Three nodes in range of each other and a fourth in range of one of them.
Kite == {{n1, n2}, {n2, n3}, {n1, n3}, {n3, n4}}
Side == {{n1, n3}}
=============================================================================
