------------------------------- MODULE PeerSet -------------------------------
(***************************************************************************)
(* What PeerManager promises its callers, whatever the table looks like:   *)
(* a set of at most MaxPeers peers, each with the time it was last heard   *)
(* and whether its key is valid; a full set makes room by giving up the    *)
(* peer heard longest ago (PeerManager.h:25-39).                           *)
(***************************************************************************)
EXTENDS Integers, FiniteSets, Functions

CONSTANTS Mac, MaxPeers

VARIABLES
    clock,  \* millis()
    peers   \* the peers, each with [seen, est]

Oldest(f) == {m \in DOMAIN f : \A o \in DOMAIN f : f[m].seen <= f[o].seen}

With(f, m, e) == [x \in DOMAIN f \cup {m} |-> IF x = m THEN e ELSE f[x]]

\* addPeer and setLinkKey: a known peer is refreshed, a new one may cost another.
Join(m) ==
    /\ \/ /\ m \in DOMAIN peers \/ Cardinality(DOMAIN peers) < MaxPeers
          /\ peers' = With(peers, m, [seen |-> clock, est |-> TRUE])
       \/ /\ m \notin DOMAIN peers /\ Cardinality(DOMAIN peers) = MaxPeers
          /\ \E v \in Oldest(peers) :
                peers' = With(Restrict(peers, DOMAIN peers \ {v}), m,
                              [seen |-> clock, est |-> TRUE])
    /\ UNCHANGED clock

\* A frame of a known peer refreshes it.
Hear(m) ==
    /\ m \in DOMAIN peers
    /\ peers' = [peers EXCEPT ![m].seen = clock]
    /\ UNCHANGED clock

\* removePeer.
Leave(m) ==
    /\ m \in DOMAIN peers
    /\ peers' = Restrict(peers, DOMAIN peers \ {m})
    /\ UNCHANGED clock

\* Every key is invalidated.
Rotate ==
    /\ peers' = [m \in DOMAIN peers |-> [peers[m] EXCEPT !.est = FALSE]]
    /\ UNCHANGED clock

Tick == clock' = clock + 1 /\ UNCHANGED peers

Init == clock = 0 /\ peers = << >>

Next == Tick \/ Rotate \/ \E m \in Mac : Join(m) \/ Hear(m) \/ Leave(m)

Spec == Init /\ [][Next]_<<clock, peers>>
=============================================================================
