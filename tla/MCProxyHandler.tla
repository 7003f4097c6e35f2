-------------------------- MODULE MCProxyHandler --------------------------
(* Instances of ProxyHandler.tla for TLC. *)
EXTENDS ProxyHandler, TLC

CONSTANTS c1, c2, c3, t1, all

AnyNames == Permutations({c1, c2, c3})

\* A topic, and a subscription that ends with #.
Filters == [t \in {t1, all} |-> {t1}]
=============================================================================
