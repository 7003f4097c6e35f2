------------------------------ MODULE Handshake ------------------------------
(***************************************************************************)
(* Link establishment between ESP32 nodes: the part of MeshNetwork.cpp     *)
(* that turns a heard JOIN_BEACON into a peer with a link key, and loses   *)
(* the peer again (timeout, ROUTE_WITHDRAW, key rotation, restart).        *)
(*                                                                         *)
(* Every node runs the same code in two tasks.  The receive handlers all   *)
(* run in the task that delivers frames, one after the other: a handler is *)
(* one action.  loop() runs in the application's task, and nothing keeps a *)
(* handler out of it: an iteration of one of its loops is one action, and  *)
(* handlers run between two of them.  Nodes interleave freely.             *)
(*                                                                         *)
(* Data abstraction.  A run of the exchange draws an ephemeral key pair    *)
(* and a nonce together; both are one value, Eph(n, k): the k-th draw of   *)
(* node n.  computeSharedSecret + deriveLinkKey is commutative in the two  *)
(* ephemerals and in the (sorted) MACs, so a link key is the set of the    *)
(* two ephemerals, and so is the XOR of the two nonces that CONFIRM        *)
(* carries.  A context's startedAt is written exactly where its ephemeral  *)
(* is drawn, so the order of startedAt is the order of the draws.          *)
(***************************************************************************)
EXTENDS Integers, FiniteSets

CONSTANTS
    Node,           \* the ESP32 nodes, by MAC
    Gateways,       \* those in mode MESH_GATEWAY; the others are MESH_NODE
    Hears,          \* <<n, p>> : broadcasts of p reach n
    NoNode,         \* the zeroed MAC of an unused field
    MaxHandshakes,  \* MAX_HANDSHAKES, contexts per node
    MaxPeers,       \* MESH_MAX_PEERS
    MaxRoutes,      \* MESH_MAX_ROUTES
    MaxRuns,        \* bound: ephemerals a node draws, per node
    FaultKinds,     \* which faults may happen: see CanFault
    MaxFaults,      \* bound: faults in a behaviour
    Prompt          \* timing: TRUE if frames are much faster than timers

Slots == 1..MaxHandshakes

ASSUME HandshakeAssumption ==
    /\ Gateways \subseteq Node
    /\ Hears \subseteq Node \X Node
    /\ \A n \in Node : <<n, n>> \notin Hears
    /\ NoNode \notin Node
    /\ MaxHandshakes \in Nat \ {0}
    /\ MaxPeers \in Nat \ {0}
    /\ MaxRoutes \in Nat \ {0}
    /\ MaxRuns \in [Node -> Nat]
    /\ MaxFaults \in Nat
    /\ Prompt \in BOOLEAN
    /\ FaultKinds \subseteq
           {"loss", "dup", "silence", "restart", "rotate", "nack"}

VARIABLES
    hs,         \* _handshakes[] of each node
    link,       \* what the peer table of n says of p: status and link key
    routes,     \* the MACs a node has a (direct) route entry for
    knownGw,    \* _knownGatewayMac, NoNode while _gatewayMacValid is false
    defRoute,   \* the default gateway set on mesh0
    runs,       \* ephemerals drawn so far
    net,        \* frames in the air
    faults,     \* faults so far
    installed   \* history: every setLinkKey, as [peer, key, role]

vars == <<hs, link, routes, knownGw, defRoute, runs, net, faults, installed>>

-----------------------------------------------------------------------------
(* Values.                                                                 *)

Eph(n, k) == [owner |-> n, run |-> k]
Ephs == [owner : Node, run : Nat \ {0}]
NoEph == Eph(NoNode, 0)

LinkKey(e, f) == {e, f}

NoLink == [st |-> "none", key |-> {}]
Links == [st : {"none", "stale", "est"}, key : SUBSET Ephs]

FreeSlot(p) == [peer |-> p, state |-> "IDLE", run |-> 0, theirs |-> NoEph]
Contexts ==
    [peer : Node \cup {NoNode}, state : {"IDLE"}, run : {0}, theirs : {NoEph}]
    \cup [peer : Node, state : {"HELLO_SENT"}, run : Nat \ {0}, theirs : {NoEph}]
    \cup [peer : Node, state : {"REPLY_SENT"}, run : Nat \ {0}, theirs : Ephs]

Frame(t, s, d, b) == [type |-> t, src |-> s, dst |-> d, body |-> b]
KeyFrames == {"HELLO", "REPLY", "CONFIRM"}

Broadcast(t, n, b) ==
    {Frame(t, n, q, b) : q \in {r \in Node : <<r, n>> \in Hears}}

-----------------------------------------------------------------------------
(* The context table.                                                      *)

Active(n, i) == hs[n][i].state # "IDLE"
ActiveFor(n, p) == {i \in Slots : Active(n, i) /\ hs[n][i].peer = p}
IdleSlots(n) == {i \in Slots : ~Active(n, i)}
MacSlots(n, p) == {i \in Slots : hs[n][i].peer = p}

First(i, S) == i \in S /\ \A j \in S : i <= j

\* _findHandshake: the first context in use for p.
FindHandshake(n, p, i) == First(i, ActiveFor(n, p))

\* Fault: the last free slot is taken instead of the first.
AllocLastFree(n, p, i) ==
    IF ActiveFor(n, p) # {} THEN FindHandshake(n, p, i)
    ELSE IF IdleSlots(n) # {} THEN i \in IdleSlots(n) /\ \A j \in IdleSlots(n) : j <= i
    ELSE i \in Slots /\ \A j \in Slots : hs[n][i].run <= hs[n][j].run

\* _allocHandshake: the context of p, else the first free one, else the oldest.
AllocHandshake(n, p, i) ==
    IF ActiveFor(n, p) # {} THEN FindHandshake(n, p, i)
    ELSE IF IdleSlots(n) # {} THEN First(i, IdleSlots(n))
    ELSE i \in Slots /\ \A j \in Slots : hs[n][i].run <= hs[n][j].run

\* Fault: the context is not freed.
FreeNothing(n, p) == UNCHANGED hs

\* _freeHandshake: the first slot whose MAC is p, in use or not.
FreeHandshake(n, p) ==
    \E i \in Slots : /\ First(i, MacSlots(n, p))
                     /\ hs' = [hs EXCEPT ![n][i] = FreeSlot(p)]

\* A context for p with a new ephemeral in slot i.
StartRun(n, p, i, state, theirs) ==
    /\ runs[n] < MaxRuns[n]
    /\ runs' = [runs EXCEPT ![n] = @ + 1]
    /\ hs' = [hs EXCEPT ![n][i] = [peer |-> p, state |-> state,
                                   run |-> runs[n] + 1, theirs |-> theirs]]

-----------------------------------------------------------------------------
(* The peer table, by what addPeer and setLinkKey promise (PeerTable.tla   *)
(* models the hash table itself).  Which peer a full table evicts depends  *)
(* on lastSeen, which is not modelled here: any may be the victim.         *)

Peers(n) == {p \in Node : link[n][p].st # "none"}

\* Fault: setLinkKey before addPeer, so a new peer has no key yet.
SetKeyThenAdd(n, p, key, role) ==
    /\ installed' = [installed EXCEPT
           ![n] = @ \cup {[peer |-> p, key |-> key, role |-> role]}]
    /\ link' = [link EXCEPT ![n][p] = IF p \in Peers(n)
                                      THEN [st |-> "est", key |-> key]
                                      ELSE [st |-> "stale", key |-> {}]]

InstallKey(n, p, key, role) ==
    /\ installed' = [installed EXCEPT
           ![n] = @ \cup {[peer |-> p, key |-> key, role |-> role]}]
    /\ \/ /\ p \in Peers(n) \/ Cardinality(Peers(n)) < MaxPeers
          /\ link' = [link EXCEPT ![n][p] = [st |-> "est", key |-> key]]
       \/ /\ p \notin Peers(n) /\ Cardinality(Peers(n)) >= MaxPeers
          /\ \E v \in Peers(n) :
                link' = [link EXCEPT ![n] =
                    [q \in Node |-> IF q = v THEN NoLink
                                    ELSE IF q = p THEN [st |-> "est", key |-> key]
                                    ELSE link[n][q]]]

\* Fault: the MAC is read from a context already cleared.
AddClearedRoute(n, p) == routes' = [routes EXCEPT ![n] = @ \cup {NoNode}]

\* addRoute of a direct entry.  Entries with more hops are evicted first: they
\* take no room from the direct ones until those fill the table (learned
\* routes are Routing's).  Then the oldest goes, here any.
AddRoute(n, p) ==
    LET full == p \notin routes[n] /\ Cardinality(routes[n]) >= MaxRoutes
    IN  \E out \in IF full THEN {{v} : v \in routes[n]} ELSE {{}} :
            routes' = [routes EXCEPT ![n] = (@ \ out) \cup {p}]

-----------------------------------------------------------------------------
(* Faults and timing.                                                      *)

CanFault(kind) == kind \in FaultKinds /\ faults < MaxFaults
Fault(kind) == CanFault(kind) /\ faults' = faults + 1

InFlight(n, p) ==
    \E m \in net : m.type \in KeyFrames /\ {m.src, m.dst} = {n, p}

\* Under Prompt no timer fires and no beacon is heard between two nodes while
\* a frame of theirs is in the air (milliseconds against seconds).
Settled(n, p) == Prompt => ~InFlight(n, p)

-----------------------------------------------------------------------------
(* Handlers.  "rest" is the air without the frame being handled.           *)

\* Fault: a freed context still counts as an exchange in progress.
InitiateOnce(n, p, rest) ==
    \/ /\ MacSlots(n, p) # {}
       /\ net' = rest
       /\ UNCHANGED <<hs, runs>>
    \/ /\ MacSlots(n, p) = {}
       /\ \E i \in Slots :
             /\ AllocHandshake(n, p, i)
             /\ StartRun(n, p, i, "HELLO_SENT", NoEph)
       /\ net' = rest \cup {Frame("HELLO", n, p, Eph(n, runs[n] + 1))}

\* _initiateHandshake, from a beacon or a KEY_NACK.
InitiateHandshake(n, p, rest) ==
    \/ /\ ActiveFor(n, p) # {}
       /\ net' = rest
       /\ UNCHANGED <<hs, runs>>
    \/ /\ ActiveFor(n, p) = {}
       /\ \E i \in Slots :
             /\ AllocHandshake(n, p, i)
             /\ StartRun(n, p, i, "HELLO_SENT", NoEph)
       /\ net' = rest \cup {Frame("HELLO", n, p, Eph(n, runs[n] + 1))}

\* _handleJoinBeacon.  A beacon of a peer the table already holds only
\* refreshes lastSeen: no step here, whatever the state of the link key.
HandleJoinBeacon(n, p) ==
    /\ <<n, p>> \in Hears
    /\ Settled(n, p)
    /\ p \notin Peers(n)
    /\ knownGw' = IF p \in Gateways THEN [knownGw EXCEPT ![n] = p] ELSE knownGw
    /\ InitiateHandshake(n, p, net)
    /\ UNCHANGED <<link, routes, defRoute, faults, installed>>

\* _handleKeyExchHello: whatever context p had is reused for the new run.
HandleHello(m, rest) ==
    LET n == m.dst
        p == m.src
    IN  /\ m.type = "HELLO"
        /\ \E i \in Slots :
              /\ AllocHandshake(n, p, i)
              /\ StartRun(n, p, i, "REPLY_SENT", m.body)
        /\ net' = rest \cup {Frame("REPLY", n, p, Eph(n, runs[n] + 1))}
        /\ UNCHANGED <<link, routes, knownGw, defRoute, installed>>

\* _handleKeyExchReply with a context in HELLO_SENT: the initiator installs
\* the key now, before the responder has confirmed anything.
HandleReply(m, rest) ==
    LET n == m.dst
        p == m.src
    IN  /\ m.type = "REPLY"
        /\ \E i \in Slots :
              LET key == LinkKey(Eph(n, hs[n][i].run), m.body) IN
              /\ FindHandshake(n, p, i)
              /\ hs[n][i].state = "HELLO_SENT"
              /\ InstallKey(n, p, key, "initiator")
              /\ net' = rest \cup {Frame("CONFIRM", n, p, key)}
                             \cup Broadcast("ARP_REPLY", n, n)
        /\ AddRoute(n, p)
        /\ defRoute' = IF n \notin Gateways /\ knownGw[n] = p
                       THEN [defRoute EXCEPT ![n] = p] ELSE defRoute
        /\ FreeHandshake(n, p)
        /\ UNCHANGED <<runs, knownGw>>

\* Fault: the nonces of a CONFIRM are not compared.
AnyConfirm(n, i, m) == TRUE

\* CONFIRM carries the XOR of the two nonces of the run.
ConfirmMatches(n, i, m) ==
    m.body = LinkKey(Eph(n, hs[n][i].run), hs[n][i].theirs)

\* _handleKeyExchConfirm with a context in REPLY_SENT.
HandleConfirm(m, rest) ==
    LET n == m.dst
        p == m.src
    IN  /\ m.type = "CONFIRM"
        /\ \E i \in Slots :
              LET key == LinkKey(Eph(n, hs[n][i].run), hs[n][i].theirs) IN
              /\ FindHandshake(n, p, i)
              /\ hs[n][i].state = "REPLY_SENT"
              /\ \/ /\ ConfirmMatches(n, i, m)
                    /\ InstallKey(n, p, key, "responder")
                    /\ AddRoute(n, p)
                    /\ net' = rest \cup {Frame("CONFIRM", n, p, key)}
                 \/ /\ ~ConfirmMatches(n, i, m)
                    /\ net' = rest
                    /\ UNCHANGED <<link, routes, installed>>
        /\ FreeHandshake(n, p)
        /\ UNCHANGED <<runs, knownGw, defRoute>>

\* The early returns: no context, or not in the state the frame is for.
IgnoreKeyFrame(m, rest) ==
    /\ \/ m.type = "REPLY"
          /\ ~\E i \in Slots : FindHandshake(m.dst, m.src, i)
                               /\ hs[m.dst][i].state = "HELLO_SENT"
       \/ m.type = "CONFIRM"
          /\ ~\E i \in Slots : FindHandshake(m.dst, m.src, i)
                               /\ hs[m.dst][i].state = "REPLY_SENT"
    /\ net' = rest
    /\ UNCHANGED <<hs, link, routes, knownGw, defRoute, runs, installed>>

\* Fault: the withdrawn peer stays in the peer table.
WithdrawRouteOnly(m, rest) ==
    /\ m.type = "ROUTE_WITHDRAW"
    /\ routes' = [routes EXCEPT ![m.dst] = @ \ ({m.body} \ {m.dst})]
    /\ net' = rest
    /\ UNCHANGED <<hs, link, knownGw, defRoute, runs, installed>>

\* _handleRouteWithdraw: the sender lost the peer m.body.
HandleWithdraw(m, rest) ==
    LET n == m.dst
        lost == m.body
    IN  /\ m.type = "ROUTE_WITHDRAW"
        /\ \/ /\ lost # n /\ lost \in routes[n]
              /\ routes' = [routes EXCEPT ![n] = @ \ {lost}]
              /\ link' = [link EXCEPT ![n][lost] = NoLink]
           \/ /\ lost = n \/ lost \notin routes[n]
              /\ UNCHANGED <<routes, link>>
        /\ net' = rest
        /\ UNCHANGED <<hs, knownGw, defRoute, runs, installed>>

\* _handleArpReply for the gratuitous ARP of m.src.
HandleArpReply(m, rest) ==
    /\ m.type = "ARP_REPLY"
    /\ AddRoute(m.dst, m.body)
    /\ net' = rest
    /\ UNCHANGED <<hs, link, knownGw, defRoute, runs, installed>>

\* _handleFrame: a frame arrives; a unicast frame whose acknowledgement was
\* lost is sent again and may arrive again.
Deliver(n, p) ==
    \E m \in net :
        /\ m.dst = n /\ m.src = p
        /\ \E rest \in {net \ {m}, net} :
              /\ faults' = IF rest = net THEN faults + 1 ELSE faults
              /\ rest = net => m.type \in KeyFrames /\ CanFault("dup")
              /\ \/ HandleHello(m, rest)
                 \/ HandleReply(m, rest)
                 \/ HandleConfirm(m, rest)
                 \/ IgnoreKeyFrame(m, rest)
                 \/ HandleWithdraw(m, rest)
                 \/ HandleArpReply(m, rest)

\* _checkPeerTimeouts, one iteration over the peers: p was silent too long.
DropSilentPeer(n, p) ==
    /\ p \in Peers(n)
    /\ Settled(n, p)
    /\ Fault("silence")
    /\ link' = [link EXCEPT ![n][p] = NoLink]
    /\ routes' = [routes EXCEPT ![n] = @ \ {p}]
    /\ net' = net \cup Broadcast("ROUTE_WITHDRAW", n, p)
    /\ UNCHANGED <<hs, knownGw, defRoute, runs, installed>>

\* Fault: the loop over the contexts stops one short.
AllButLastContext(n) == {i \in Slots : i < MaxHandshakes /\ Active(n, i)}

\* The contexts the timeout loop looks at.
TimedContexts(n) == {i \in Slots : Active(n, i)}

\* _checkPeerTimeouts, one iteration over the contexts.  The context may be
\* younger than MESH_HANDSHAKE_TIMEOUT_MS: "now" is read before the loop, and
\* now - startedAt wraps around if a handler started the exchange since.
ExpireContext(n, i) ==
    /\ i \in TimedContexts(n)
    /\ Settled(n, hs[n][i].peer)
    /\ hs' = [hs EXCEPT ![n][i] = FreeSlot(hs[n][i].peer)]
    /\ UNCHANGED <<link, routes, knownGw, defRoute, runs, net, faults, installed>>

\* _rotateEpoch: every key is invalidated; nothing else is scheduled.
RotateEpoch(n) ==
    /\ Fault("rotate")
    /\ \E p \in Node : link[n][p].st = "est"
    /\ link' = [link EXCEPT ![n] =
          [p \in Node |-> IF link[n][p].st = "est"
                          THEN [st |-> "stale", key |-> link[n][p].key]
                          ELSE link[n][p]]]
    /\ UNCHANGED <<hs, routes, knownGw, defRoute, runs, net, installed>>

\* _handleKeyNack.  No code of the repository sends KEY_NACK; the frame is an
\* input here.
HandleKeyNack(n, p) ==
    /\ n # p
    /\ Fault("nack")
    /\ link' = IF link[n][p].st = "est"
               THEN [link EXCEPT ![n][p] = [st |-> "stale", key |-> @.key]]
               ELSE link
    /\ InitiateHandshake(n, p, net)
    /\ UNCHANGED <<routes, knownGw, defRoute, installed>>

\* A reset: RAM is lost, begin() starts from nothing, the air is untouched.
Restart(n) ==
    /\ Fault("restart")
    /\ hs' = [hs EXCEPT ![n] = [i \in Slots |-> FreeSlot(NoNode)]]
    /\ link' = [link EXCEPT ![n] = [p \in Node |-> NoLink]]
    /\ routes' = [routes EXCEPT ![n] = {}]
    /\ knownGw' = [knownGw EXCEPT ![n] = NoNode]
    /\ defRoute' = [defRoute EXCEPT ![n] = NoNode]
    /\ UNCHANGED <<runs, net, installed>>

Lose(m) ==
    /\ Fault("loss")
    /\ net' = net \ {m}
    /\ UNCHANGED <<hs, link, routes, knownGw, defRoute, runs, installed>>

-----------------------------------------------------------------------------

Init ==
    /\ hs = [n \in Node |-> [i \in Slots |-> FreeSlot(NoNode)]]
    /\ link = [n \in Node |-> [p \in Node |-> NoLink]]
    /\ routes = [n \in Node |-> {}]
    /\ knownGw = [n \in Node |-> NoNode]
    /\ defRoute = [n \in Node |-> NoNode]
    /\ runs = [n \in Node |-> 0]
    /\ net = {}
    /\ faults = 0
    /\ installed = [n \in Node |-> {}]

Next ==
    \/ \E n, p \in Node : \/ HandleJoinBeacon(n, p)
                          \/ Deliver(n, p)
                          \/ HandleKeyNack(n, p)
                          \/ DropSilentPeer(n, p)
    \/ \E n \in Node, i \in Slots : ExpireContext(n, i)
    \/ \E n \in Node : RotateEpoch(n) \/ Restart(n)
    \/ \E m \in net : Lose(m)

Spec == Init /\ [][Next]_vars

\* Beacons recur, frames that are not lost arrive, and loop() runs the
\* periodic check of every context: each is weakly fair.  Faults are not.
Fairness ==
    \A n \in Node : /\ \A i \in Slots : WF_vars(ExpireContext(n, i))
                    /\ \A p \in Node : /\ WF_vars(HandleJoinBeacon(n, p))
                                       /\ WF_vars(Deliver(n, p))

FairSpec == Spec /\ Fairness

-----------------------------------------------------------------------------
(* Properties.                                                             *)

VarsOK ==
    /\ hs \in [Node -> [Slots -> Contexts]]
    /\ link \in [Node -> [Node -> Links]]
    /\ routes \in [Node -> SUBSET Node]
    /\ knownGw \in [Node -> Node \cup {NoNode}]
    /\ defRoute \in [Node -> Node \cup {NoNode}]
    /\ runs \in [Node -> Nat]
    /\ faults \in Nat
    /\ installed \in [Node -> SUBSET [peer : Node, key : SUBSET Ephs,
                                      role : {"initiator", "responder"}]]

FrameOK(m) ==
    /\ m.src \in Node /\ m.dst \in Node
    /\ \/ m.type \in {"HELLO", "REPLY"} /\ m.body \in Ephs
       \/ m.type = "CONFIRM" /\ m.body \in SUBSET Ephs
       \/ m.type \in {"ROUTE_WITHDRAW", "ARP_REPLY"} /\ m.body \in Node

\* Every variable keeps its type, and a frame has the body of its type.
TypeOK == VarsOK /\ \A m \in net : FrameOK(m)

\* Two exchanges of a node never run with the same MAC, and no slot before a
\* context in use still carries its MAC: _freeHandshake, which compares MACs
\* only, ends the exchange it is called for (MeshNetwork.cpp:1141-1186).
OneContextPerMac ==
    \A n \in Node, i, j \in Slots :
        Active(n, j) /\ i # j /\ hs[n][i].peer = hs[n][j].peer
            => ~Active(n, i) /\ j < i

\* The key stored for p is the one of an exchange between n and p: it holds an
\* ephemeral n drew and one p drew, never those of an exchange with another
\* node that shared the context table.
KeyIsOurs ==
    \A n, p \in Node : link[n][p].st # "none" =>
        \E i \in 1..runs[n], j \in 1..runs[p] :
            link[n][p].key = LinkKey(Eph(n, i), Eph(p, j))

\* setLinkKey resets both sequence counters, so a key must never be installed
\* twice: an ephemeral serves one installation, and a context in use has not
\* served one yet, whatever frames are repeated or late.
EphemeralsServeOnce ==
    \A n \in Node :
        /\ \A r, s \in installed[n], k \in 1..runs[n] :
              Eph(n, k) \in r.key \cap s.key => r = s
        /\ \A i \in Slots, r \in installed[n] :
              Active(n, i) => Eph(n, hs[n][i].run) \notin r.key

\* A responder installs only a key its initiator has installed for it: the
\* CONFIRM check rejects the CONFIRM of any other exchange
\* (MeshNetwork.cpp:632-643).
ResponderKeyIsInitiators ==
    \A n \in Node : \A r \in installed[n] : r.role = "responder" =>
        [peer |-> n, key |-> r.key, role |-> "initiator"] \in installed[r.peer]

\* A peer always has a route entry; _handleRouteWithdraw tests the route
\* table to decide whether to drop the peer, so a peer without a route would
\* outlive every withdraw (MeshNetwork.cpp:697-712).  It asks for room for
\* every node in the route table: a full one evicts the entry of a peer.
PeerHasRoute == \A n \in Node : Peers(n) \subseteq routes[n]

\* With prompt frames, when a responder installs a key its initiator is using
\* that same key at that moment.
ResponderAgreesAtOnce ==
    [][\A n \in Node : \A r \in installed'[n] \ installed[n] :
           r.role = "responder" =>
               link'[r.peer][n] = [st |-> "est", key |-> r.key]]_vars

\* No exchange holds its context for ever: it completes, is replaced, or
\* _checkPeerTimeouts frees it.
ExchangeEnds ==
    \A n \in Node, i \in Slots : \A k \in 1..MaxRuns[n] :
        (Active(n, i) /\ hs[n][i].run = k) ~>
            (~Active(n, i) \/ hs[n][i].run # k)

\* Two nodes that hear each other end up as peers of each other for good,
\* once frames stop being lost, if beacons do not cross an exchange.
NeighboursJoin ==
    \A n, p \in Node : {<<n, p>>, <<p, n>>} \subseteq Hears =>
        <>[](link[n][p].st = "est" /\ link[p][n].st = "est")

=============================================================================
