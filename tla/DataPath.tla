------------------------------ MODULE DataPath ------------------------------
(***************************************************************************)
(* The way of one packet through the mesh of Routing.tla: lwIP or the      *)
(* application hands it to a node, each node on the way relays it by its   *)
(* own table, and the last one gives it to its lwIP.  The mesh counts no   *)
(* hops: nothing but the tables keeps a packet from going round.           *)
(*                                                                         *)
(* There is one packet at a time.  A packet of more than MESH_MAX_PAYLOAD  *)
(* bytes travels as DATA_FRAG frames, which the next node puts together    *)
(* (Fragmentation.tla): here they are one frame marked large.              *)
(***************************************************************************)
EXTENDS Routing

CONSTANTS
    Relays,     \* the nodes with _relayEnabled: all but those on battery
    Gateway,    \* the node in mode MESH_GATEWAY
    HeardGateway, \* the nodes with Gateway in _knownGatewayMac: they met a beacon of it
    Outside,    \* a destination that is no node of the mesh
    Sources,    \* bound: the nodes whose lwIP or application sends
    Traffic     \* bound: where to

ASSUME DataPathAssumption ==
    /\ Relays \cup Sources \subseteq Node /\ Gateway \in Node
    /\ HeardGateway \subseteq Node /\ \A n \in HeardGateway : {n, Gateway} \in Links
    /\ Outside \notin Node \cup {NoNode} /\ Traffic \subseteq Node \cup {Outside}

VARIABLE
    pkt     \* the frame in the air: its transmitter, its receiver, the header's
            \* dstMac; hops is (history) the transmitter's distance to dstMac

netVars == <<routes, peers, alive, links, sent, wire, faults, losses, delays, pkt>>

NoPacket == [from |-> NoNode, to |-> NoNode, dst |-> NoNode, hops |-> 0, large |-> FALSE]

\* _sendFrameVia(d, next, ...): the header has the transmitter's own MAC.
FrameVia(n, next, d, h, large) == [from |-> n, to |-> next, dst |-> d, hops |-> h, large |-> large]

\* A frame for d by the route n has.
Routed(n, d, large) == FrameVia(n, routes[n][d].next, d, routes[n][d].hops, large)

\* _netifTxCallback: to d, or to the gateway if there is no route to d.  Only a
\* beacon of the gateway itself makes it known: nodes further off refuse.
NetifTx(n, d, large) ==
    /\ n \in alive \ {d} /\ pkt = NoPacket
    /\ LET via == IF d \in Known(routes[n]) THEN d ELSE Gateway IN
          /\ d \in Known(routes[n]) \/ n \in HeardGateway
          /\ via # n /\ via \in Known(routes[n])
          /\ pkt' = Routed(n, via, large)
    /\ UNCHANGED vars

\* sendData: without a route the destination is taken for a neighbour.
SendData(n, d, large) ==
    /\ n \in alive \ {d} /\ pkt = NoPacket
    /\ pkt' = IF d \in Known(routes[n]) THEN Routed(n, d, large)
              ELSE FrameVia(n, d, d, Infinity, large)
    /\ UNCHANGED vars

\* Fault: the destination is taken for a neighbour.
RelayDirect(n) ==
    IF n \in Relays /\ pkt.dst \in Known(routes[n]) /\ ~pkt.large
    THEN FrameVia(n, pkt.dst, pkt.dst, routes[n][pkt.dst].hops, FALSE) ELSE NoPacket

\* What n sends on.  A large packet is one frame now, which _sendFrameVia refuses.
Relayed(n) ==
    IF n \in Relays /\ pkt.dst \in Known(routes[n]) /\ ~pkt.large
    THEN Routed(n, pkt.dst, FALSE) ELSE NoPacket

\* _handleData: the transmitter was heard; the packet is here, or goes on.
HandleData ==
    /\ pkt # NoPacket /\ Linked(pkt.from, pkt.to)
    /\ peers' = [peers EXCEPT ![pkt.to][pkt.from] = Heard(pkt.from, pkt.to)]
    /\ pkt' = IF pkt.to = pkt.dst THEN NoPacket ELSE Relayed(pkt.to)
    /\ UNCHANGED <<routes, alive, links, sent, wire, faults, losses, delays>>

\* The frame does not arrive: it is lost, or its receiver out of reach.
FrameFails ==
    /\ pkt # NoPacket
    /\ pkt' = NoPacket
    /\ UNCHANGED vars

NetInit == Init /\ pkt = NoPacket

Transmit == HandleData \/ FrameFails

NetNext ==
    \/ Next /\ UNCHANGED pkt
    \/ \E n \in Sources, large \in BOOLEAN :
           \/ \E d \in Traffic : NetifTx(n, d, large)
           \/ \E d \in Traffic \cap Node : SendData(n, d, large)
    \/ Transmit

\* Frames arrive or fail as the rest of the mesh goes on: a packet that goes
\* round keeps no loop from advertising.
NetSpec ==
    /\ NetInit /\ [][NetNext]_netVars
    /\ WF_netVars(Step /\ UNCHANGED pkt) /\ WF_netVars(Transmit)

-----------------------------------------------------------------------------
(* Properties.                                                             *)

\* Until an advertisement, a link or a node is lost, a packet that was sent by a
\* route comes nearer to its destination with each hop, whatever the tables
\* learn meanwhile: no node on the way drops it or sends it to one out of reach
\* (MeshNetwork.cpp:746-755).
NearerEachHop ==
    [][ HandleData /\ faults = MaxFaults /\ losses = MaxLosses
            /\ pkt.to # pkt.dst /\ ~pkt.large /\ pkt.hops < Infinity
        => pkt' # NoPacket /\ pkt'.hops < pkt.hops /\ Linked(pkt'.from, pkt'.to) ]_netVars

\* Every packet leaves the mesh, although nothing counts its hops: no two tables
\* send it to and fro for ever, not even after a fault.
PacketsEnd == []<>(pkt = NoPacket)
=============================================================================
