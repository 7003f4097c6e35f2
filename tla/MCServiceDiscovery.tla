------------------------ MODULE MCServiceDiscovery ------------------------
(* Instances of ServiceDiscovery.tla for TLC. *)
EXTENDS ServiceDiscovery, TLC

CONSTANTS n1, n2, none, http, long, cut

\* One name is longer than a stored one.
Names == {http, long}
CutNames == http :> http @@ long :> cut @@ cut :> cut
=============================================================================
