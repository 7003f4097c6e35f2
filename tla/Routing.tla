------------------------------- MODULE Routing -------------------------------
(***************************************************************************)
(* The distance-vector routing of Router.cpp and of its callers in         *)
(* MeshNetwork.cpp: routes learned from neighbours' advertisements, with   *)
(* split horizon and poison reverse, routes that expire, neighbours that   *)
(* fall silent and the withdrawal their loss sets off.                     *)
(*                                                                         *)
(* Time advances by Tick, one ROUTE_ADV_INTERVAL_MS, in which every loop   *)
(* has advertised once and acted on every timeout, in any order.  A table  *)
(* is a function of the destination: a MAC has one IP, the slots of        *)
(* _routes are not ordered, and what the code settles by their order (ties *)
(* of an eviction) falls to a fixed choice or (which routes fit in an      *)
(* advertisement) to any choice.                                           *)
(***************************************************************************)
EXTENDS Integers, FiniteSets, Functions

CONSTANTS
    Node,
    NoNode,     \* the next hop of an invalid entry
    Links,      \* pairs of nodes in range of each other
    Infinity,   \* the hop count of a poisoned entry, 16 in the code
    MaxRoutes,  \* MESH_MAX_ROUTES
    MaxAdv,     \* ROUTE_ADV_MAX_ENTRIES
    Lifetime,   \* ROUTE_EXPIRE_MS, in intervals
    Silence,    \* PEER_TIMEOUT_NORMAL_MS, in intervals
    MayFail,    \* bound: the nodes that may be switched off
    MayCut,     \* bound: the links that may be lost
    MaxFaults,  \* bound: links cut, nodes switched off
    MaxLosses,  \* bound: frames lost
    MaxDelays   \* bound: advertisements overtaken by others

ASSUME RoutingAssumption ==
    /\ IsFiniteSet(Node) /\ NoNode \notin Node
    /\ Links \subseteq {l \in SUBSET Node : Cardinality(l) = 2}
    /\ Infinity \in Nat /\ Infinity > 2
    /\ MayFail \subseteq Node /\ MayCut \subseteq Links
    /\ {MaxRoutes, MaxAdv} \subseteq Nat \ {0}
    /\ {Lifetime, Silence, MaxFaults, MaxLosses, MaxDelays} \subseteq Nat

VARIABLES
    routes, \* _routes of every node, by destination
    peers,  \* intervals since each peer was heard, of every node; Stranger if none
    alive,  \* the nodes that run
    links,  \* the links that hold
    sent,   \* the nodes that advertised in this interval
    wire,   \* the advertisements that are late
    faults, \* faults left
    losses, \* losses left
    delays  \* delays left

vars == <<routes, peers, alive, links, sent, wire, faults, losses, delays>>

Stranger == -1
NoRoute == [next |-> NoNode, hops |-> 0, age |-> 0]
Entry == [next : Node, hops : 1..(Infinity - 1), age : 0..(Lifetime + 1)]

Linked(n, p) == {n, p} \in links /\ {n, p} \subseteq alive
Known(t) == {d \in Node : t[d] # NoRoute}
Peers(n) == {p \in Node : peers[n][p] # Stranger}

-----------------------------------------------------------------------------
(* The table.                                                              *)

\* _findEvictionCandidate: hops above age.
Victim(t) ==
    CHOOSE v \in Known(t) : \A d \in Known(t) :
        t[v].hops > t[d].hops \/ (t[v].hops = t[d].hops /\ t[v].age >= t[d].age)

\* Fault: the latest advertisement wins.
LatestWins(t, d, p, h) == [t EXCEPT ![d] = [next |-> p, hops |-> h, age |-> 0]]

\* addRoute: a direct route yields to nothing but itself, any other to a
\* shorter one or to its own next hop, shorter or not.
AddRoute(t, d, p, h) ==
    LET new == [next |-> p, hops |-> h, age |-> 0] IN
    CASE d \in Known(t) ->
            IF t[d].next = p \/ (t[d].hops # 1 /\ h < t[d].hops)
            THEN [t EXCEPT ![d] = new] ELSE t
      [] d \notin Known(t) /\ Cardinality(Known(t)) < MaxRoutes ->
            [t EXCEPT ![d] = new]
      [] OTHER -> [t EXCEPT ![Victim(t)] = NoRoute, ![d] = new]

\* handleRouteWithdraw and removeRoute.
Without(t, d) == [t EXCEPT ![d] = NoRoute]

\* serializeRouteAdv for the neighbour p: the hops of each of the routes D.
Advert(t, p, D) ==
    [d \in D |-> IF t[d].next = p THEN Infinity ELSE t[d].hops + 1]

\* Fault: a poisoned entry is a route like any other.
LearnPoison(t, n, p, d, h) == IF d = n THEN t ELSE AddRoute(t, d, p, h)

\* One entry of deserializeRouteAdv, sent by p to n.
LearnEntry(t, n, p, d, h) ==
    CASE d = n -> t
      [] d # n /\ h >= Infinity -> IF t[d].next = p THEN Without(t, d) ELSE t
      [] OTHER -> AddRoute(t, d, p, h)

\* deserializeRouteAdv: the entries in the order of the sender's slots.
Slot == CHOOSE f \in Bijection(1..Cardinality(Node), Node) : TRUE

Learn(t, n, p, adv) ==
    LET after[i \in 0..Cardinality(Node)] ==
            CASE i = 0 -> t
              [] i > 0 /\ Slot[i] \in DOMAIN adv ->
                    LearnEntry(after[i - 1], n, p, Slot[i], adv[Slot[i]])
              [] OTHER -> after[i - 1]
    IN  after[Cardinality(Node)]

\* Fault: a route lasts as long as its next hop is a neighbour.
NeverExpired(t) == {d \in Known(t) : t[d].next = NoNode}

\* expireRoutes: direct routes stay.
Expired(t) == {d \in Known(t) : t[d].next # d /\ t[d].age > Lifetime}

-----------------------------------------------------------------------------
(* The nodes.                                                              *)

\* _handleKeyExchReply or _handleKeyExchConfirm, at n: p becomes a peer with a
\* direct route (what leads there is Handshake.tla).
Join(n, p) ==
    /\ Linked(n, p) /\ p \notin Peers(n)
    /\ peers' = [peers EXCEPT ![n][p] = 0]
    /\ routes' = [routes EXCEPT ![n] = AddRoute(@, p, p, 1)]
    /\ UNCHANGED <<alive, links, sent, wire, faults, losses, delays>>

\* What an advertisement fits: all routes, or any MaxAdv of them.
Fits(t) ==
    IF Cardinality(Known(t)) <= MaxAdv THEN {Known(t)}
    ELSE {D \in SUBSET Known(t) : Cardinality(D) = MaxAdv}

\* _handleRouteAdv, at p: lastSeen of a peer, then deserializeRouteAdv.
Heard(n, p) == IF n \in Peers(p) THEN 0 ELSE Stranger

\* _sendRouteAdv: one frame to each peer.  Each is handled at once, lost, or late.
SendRouteAdv(n) ==
    /\ n \in alive \ sent
    /\ sent' = sent \cup {n}
    /\ LET Hear == {p \in Peers(n) : Linked(n, p)} IN
       \E lost \in SUBSET Hear : \E late \in SUBSET (Hear \ lost), D \in Fits(routes[n]) :
          /\ Cardinality(lost) <= losses /\ Cardinality(late) <= delays
          /\ losses' = losses - Cardinality(lost)
          /\ delays' = delays - Cardinality(late)
          /\ LET Now == (Hear \ lost) \ late IN
             /\ routes' = [p \in Node |-> IF p \in Now
                           THEN Learn(routes[p], p, n, Advert(routes[n], p, D))
                           ELSE routes[p]]
             /\ peers' = [p \in Node |-> IF p \in Now
                          THEN [peers[p] EXCEPT ![n] = Heard(n, p)] ELSE peers[p]]
          /\ wire' = wire \cup
                {[from |-> n, to |-> p, adv |-> Advert(routes[n], p, D)] : p \in late}
    /\ UNCHANGED <<alive, links, faults>>

\* A late advertisement arrives.
RecvLate(f) ==
    /\ wire' = wire \ {f}
    /\ IF Linked(f.from, f.to)
       THEN /\ routes' = [routes EXCEPT ![f.to] = Learn(@, f.to, f.from, f.adv)]
            /\ peers' = [peers EXCEPT ![f.to][f.from] = Heard(f.from, f.to)]
       ELSE UNCHANGED <<routes, peers>>
    /\ UNCHANGED <<alive, links, sent, faults, losses, delays>>

\* _router.update().
ExpireRoutes(n) ==
    /\ Expired(routes[n]) # {}
    /\ routes' = [routes EXCEPT ![n] =
                    [d \in Node |-> IF d \in Expired(@) THEN NoRoute ELSE @[d]]]
    /\ UNCHANGED <<peers, alive, links, sent, wire, faults, losses, delays>>

\* _checkPeerTimeouts at n for the peer p: the routes to p go, p goes, and those
\* who hear the broadcast (_handleRouteWithdraw), p not among them, drop their
\* route to p and with it the peer p.
CheckPeerTimeouts(n, p) ==
    /\ n \in alive /\ peers[n][p] > Silence
    /\ \E lost \in SUBSET {m \in Node : Linked(n, m)} :
          /\ Cardinality(lost) <= losses
          /\ losses' = losses - Cardinality(lost)
          /\ LET Drop == {n} \cup {m \in Node \ (lost \cup {p}) :
                                      Linked(n, m) /\ p \in Known(routes[m])}
             IN  /\ routes' = [m \in Node |-> IF m \in Drop THEN Without(routes[m], p)
                                              ELSE routes[m]]
                 /\ peers' = [m \in Node |-> IF m \in Drop THEN [peers[m] EXCEPT ![p] = Stranger]
                                             ELSE peers[m]]
    /\ UNCHANGED <<alive, links, sent, wire, faults, delays>>

\* An interval ends: the beacons of the peers in range were heard, and refreshed
\* the peer and the route to it.
Tick ==
    /\ sent = alive /\ wire = {}
    /\ \A n, p \in Node : Linked(n, p) => p \in Peers(n)
    /\ \A n \in alive : Expired(routes[n]) = {} /\ \A p \in Node : peers[n][p] <= Silence
    /\ routes' = [n \in Node |-> [d \in Node |->
                    IF d \notin Known(routes[n]) THEN NoRoute
                    ELSE [routes[n][d] EXCEPT !.age = CASE Linked(n, d) -> 0
                                                       [] ~Linked(n, d) /\ @ <= Lifetime -> @ + 1
                                                       [] OTHER -> @]]]
    /\ peers' = [n \in Node |-> [p \in Node |->
                    CASE p \notin Peers(n) -> Stranger
                      [] Linked(n, p) -> 0
                      [] OTHER -> peers[n][p] + 1]]
    /\ sent' = {}
    /\ UNCHANGED <<alive, links, wire, faults, losses, delays>>

\* Faults: a link is lost for good, a node is switched off, and on again.
Cut(l) ==
    /\ l \in links \cap MayCut /\ faults > 0
    /\ links' = links \ {l}
    /\ faults' = faults - 1
    /\ UNCHANGED <<routes, peers, alive, sent, wire, losses, delays>>

Off(n) ==
    /\ n \in alive \cap MayFail /\ faults > 0
    /\ alive' = alive \ {n}
    /\ sent' = sent \ {n}
    /\ routes' = [routes EXCEPT ![n] = [d \in Node |-> NoRoute]]
    /\ peers' = [peers EXCEPT ![n] = [p \in Node |-> Stranger]]
    /\ faults' = faults - 1
    /\ UNCHANGED <<links, wire, losses, delays>>

On(n) ==
    /\ n \notin alive
    /\ alive' = alive \cup {n}
    /\ UNCHANGED <<routes, peers, links, sent, wire, faults, losses, delays>>

-----------------------------------------------------------------------------

\* A mesh whose neighbours have met and not advertised yet.
Init ==
    /\ routes = [n \in Node |-> [d \in Node |->
                    IF {n, d} \in Links THEN [next |-> d, hops |-> 1, age |-> 0] ELSE NoRoute]]
    /\ peers = [n \in Node |-> [p \in Node |-> IF {n, p} \in Links THEN 0 ELSE Stranger]]
    /\ alive = Node
    /\ links = Links
    /\ sent = {}
    /\ wire = {}
    /\ faults = MaxFaults
    /\ losses = MaxLosses
    /\ delays = MaxDelays

\* What the nodes and the clock do by themselves.
Step ==
    \/ \E n, p \in Node : Join(n, p) \/ CheckPeerTimeouts(n, p)
    \/ \E n \in Node : SendRouteAdv(n) \/ ExpireRoutes(n)
    \/ \E f \in wire : RecvLate(f)
    \/ Tick

Next ==
    \/ Step
    \/ \E n \in Node : Off(n) \/ On(n)
    \/ \E l \in Links : Cut(l)

Spec == Init /\ [][Next]_vars

\* Beacons and handshakes go on, every loop runs, frames arrive, time passes:
\* Tick waits for all the rest, so that one condition is enough.
FairSpec == Spec /\ WF_vars(Step)

-----------------------------------------------------------------------------
(* Properties.                                                             *)

\* Every variable keeps its type.
TypeOK ==
    /\ routes \in [Node -> [Node -> Entry \cup {NoRoute}]]
    /\ peers \in [Node -> [Node -> Stranger..(Silence + 1)]]
    /\ alive \subseteq Node /\ links \subseteq Links /\ sent \subseteq alive
    /\ \A f \in wire : /\ {f.from, f.to} \subseteq Node
                       /\ \A d \in DOMAIN f.adv : d \in Node /\ f.adv[d] \in 2..Infinity
    /\ faults \in 0..MaxFaults /\ losses \in 0..MaxLosses /\ delays \in 0..MaxDelays

\* Until a frame, a link or a node is lost, late advertisements or not, every
\* next hop is nearer to the destination than the node that forwards to it, so
\* that no frame goes round.
LoopFreeUntilFault ==
    faults = MaxFaults /\ losses = MaxLosses =>
        \A n \in Node : \A d \in Known(routes[n]) :
            LET p == routes[n][d].next IN
            p # d => d \in Known(routes[p]) /\ routes[p][d].hops < routes[n][d].hops

\* The distance of d from n over the links that hold, Infinity if too far.
Within(n) ==
    LET ball[k \in 0..(Infinity - 1)] ==
            IF k = 0 THEN {n}
            ELSE ball[k - 1] \cup {p \in Node : \E q \in ball[k - 1] : Linked(p, q)}
    IN  ball

\* Every table has the destinations in reach, at their distance, and no other.
Converged ==
    \A n \in alive : LET ball == Within(n) IN
        \A d \in Node \ {n} :
            IF d \in ball[Infinity - 1]
            THEN /\ d \in Known(routes[n]) /\ d \in ball[routes[n][d].hops]
                 /\ d \notin ball[routes[n][d].hops - 1]
            ELSE d \notin Known(routes[n])

\* After the last fault the tables converge and stay so: what a dead node, a cut
\* link or a wrong withdrawal left behind is counted out or expires, and no two
\* tables keep each other's memory of it alive (Router.cpp:93-106, 160-166).
Converges == <>[]Converged

=============================================================================
