--------------------------- MODULE HandshakeProofs ---------------------------
(* Theorems about Handshake.tla, for every set of nodes, topology, table    *)
(* size and mix of faults.                                                  *)
EXTENDS Handshake, FiniteSetTheorems, TLAPS

-----------------------------------------------------------------------------
(* The building blocks of the handlers keep the types.                      *)

\* An ephemeral is one of a node when it was drawn.
LEMMA EphType == \A n \in Node, k \in Nat \ {0} : Eph(n, k) \in Ephs
  BY DEF Eph, Ephs

\* Frames the code builds are well formed.
LEMMA FrameType ==
  ASSUME NEW n \in Node, NEW p \in Node
  PROVE  /\ \A e \in Ephs : /\ FrameOK(Frame("HELLO", n, p, e))
                            /\ FrameOK(Frame("REPLY", n, p, e))
         /\ \A k \in SUBSET Ephs : FrameOK(Frame("CONFIRM", n, p, k))
         /\ \A q \in Node : /\ \A m \in Broadcast("ARP_REPLY", n, q) : FrameOK(m)
                            /\ \A m \in Broadcast("ROUTE_WITHDRAW", n, q) : FrameOK(m)
<1>1. ASSUME NEW e \in Ephs
      PROVE  FrameOK(Frame("HELLO", n, p, e)) /\ FrameOK(Frame("REPLY", n, p, e))
  BY DEF FrameOK, Frame
<1>2. ASSUME NEW k \in SUBSET Ephs
      PROVE  FrameOK(Frame("CONFIRM", n, p, k))
  BY DEF FrameOK, Frame
<1>3. ASSUME NEW q \in Node, NEW t \in {"ARP_REPLY", "ROUTE_WITHDRAW"},
             NEW m \in Broadcast(t, n, q)
      PROVE  FrameOK(m)
  <2>1. PICK r \in Node : m = Frame(t, n, r, q)
    BY DEF Broadcast
  <2>2. QED BY <2>1 DEF FrameOK, Frame
<1>4. QED BY <1>1, <1>2, <1>3

\* Starting a run keeps the context table and the counters well typed.
LEMMA StartRunType ==
  ASSUME VarsOK, NEW n \in Node, NEW p \in Node, NEW i \in Slots,
         NEW state, NEW theirs,
         \/ state = "HELLO_SENT" /\ theirs = NoEph
         \/ state = "REPLY_SENT" /\ theirs \in Ephs,
         StartRun(n, p, i, state, theirs)
  PROVE  /\ hs' \in [Node -> [Slots -> Contexts]]
         /\ runs' \in [Node -> Nat]
  BY DEF VarsOK, StartRun, Contexts

\* So does freeing a context.
LEMMA FreeType ==
  ASSUME VarsOK, NEW n \in Node, NEW p \in Node, FreeHandshake(n, p)
  PROVE  hs' \in [Node -> [Slots -> Contexts]]
  BY DEF VarsOK, FreeHandshake, FreeSlot, Contexts

\* Installing a key keeps the peer tables and the history well typed.
LEMMA InstallType ==
  ASSUME VarsOK, NEW n \in Node, NEW p \in Node, NEW key \in SUBSET Ephs,
         NEW role \in {"initiator", "responder"}, InstallKey(n, p, key, role)
  PROVE  /\ link' \in [Node -> [Node -> Links]]
         /\ installed' \in [Node -> SUBSET [peer : Node, key : SUBSET Ephs,
                                            role : {"initiator", "responder"}]]
<1>1. [st |-> "est", key |-> key] \in Links /\ NoLink \in Links
  BY DEF Links, NoLink
<1>2. link' \in [Node -> [Node -> Links]]
  <2>1. CASE link' = [link EXCEPT ![n][p] = [st |-> "est", key |-> key]]
    BY <1>1, <2>1 DEF VarsOK
  <2>2. CASE \E v \in Peers(n) : link' = [link EXCEPT ![n] =
                    [q \in Node |-> IF q = v THEN NoLink
                                    ELSE IF q = p THEN [st |-> "est", key |-> key]
                                    ELSE link[n][q]]]
    BY <1>1, <2>2 DEF VarsOK
  <2>3. QED BY <2>1, <2>2 DEF InstallKey
<1>3. [peer |-> p, key |-> key, role |-> role] \in
          [peer : Node, key : SUBSET Ephs, role : {"initiator", "responder"}]
  OBVIOUS
<1>4. QED BY <1>2, <1>3 DEF InstallKey, VarsOK

\* Adding a route keeps the route tables well typed, evicting or not.
LEMMA AddRouteType ==
  ASSUME VarsOK, NEW n \in Node, NEW p \in Node, AddRoute(n, p)
  PROVE  routes' \in [Node -> SUBSET Node]
<1>1. PICK out : routes' = [routes EXCEPT ![n] = (@ \ out) \cup {p}]
  BY DEF AddRoute
<1>2. QED BY <1>1 DEF VarsOK

\* A route table with an entry for every node to come never evicts one.
RoomForRoutes == IsFiniteSet(Node) /\ Cardinality(Node) <= MaxRoutes

\* With room for every node, adding a route removes none.
LEMMA AddRouteKeeps ==
  ASSUME HandshakeAssumption, RoomForRoutes, VarsOK,
         NEW n \in Node, NEW p \in Node, AddRoute(n, p)
  PROVE  routes' = [routes EXCEPT ![n] = @ \cup {p}]
<1>1. routes[n] \in SUBSET Node
  BY DEF VarsOK
<1>2. ~(p \notin routes[n] /\ Cardinality(routes[n]) >= MaxRoutes)
  <2>1. SUFFICES ASSUME p \notin routes[n] PROVE Cardinality(routes[n]) < MaxRoutes
    <3>1. IsFiniteSet(routes[n])
      BY <1>1, FS_Subset DEF RoomForRoutes
    <3>2. Cardinality(routes[n]) \in Nat
      BY <3>1, FS_CardinalityType
    <3>3. QED BY <2>1, <3>2 DEF HandshakeAssumption
  <2>2. routes[n] \in SUBSET (Node \ {p})
    BY <1>1, <2>1
  <2>3. /\ IsFiniteSet(Node \ {p})
        /\ Cardinality(Node \ {p}) = Cardinality(Node) - 1
    BY FS_RemoveElement DEF RoomForRoutes
  <2>4. /\ IsFiniteSet(routes[n])
        /\ Cardinality(routes[n]) <= Cardinality(Node \ {p})
    BY <2>2, <2>3, FS_Subset
  <2>5. Cardinality(routes[n]) \in Nat /\ Cardinality(Node) \in Nat
    BY <2>4, FS_CardinalityType DEF RoomForRoutes
  <2>6. QED BY <2>3, <2>4, <2>5 DEF RoomForRoutes, HandshakeAssumption
<1>3. routes' = [routes EXCEPT ![n] = (@ \ {}) \cup {p}]
  BY <1>2 DEF AddRoute
<1>4. QED BY <1>3

-----------------------------------------------------------------------------
(* Type correctness.                                                        *)

\* _initiateHandshake, from any set of well-formed frames.
LEMMA InitiateType ==
  ASSUME HandshakeAssumption, TypeOK, NEW n \in Node, NEW p \in Node,
         NEW rest \in SUBSET net, InitiateHandshake(n, p, rest)
  PROVE  /\ hs' \in [Node -> [Slots -> Contexts]]
         /\ runs' \in [Node -> Nat]
         /\ \A m \in net' : FrameOK(m)
<1> USE DEF TypeOK
<1>1. CASE ActiveFor(n, p) # {}
  BY <1>1 DEF InitiateHandshake, VarsOK
<1>2. CASE ActiveFor(n, p) = {}
  <2>1. PICK i \in Slots : StartRun(n, p, i, "HELLO_SENT", NoEph)
    BY <1>2 DEF InitiateHandshake
  <2>2. Eph(n, runs[n] + 1) \in Ephs
    BY EphType DEF VarsOK
  <2>3. FrameOK(Frame("HELLO", n, p, Eph(n, runs[n] + 1)))
    BY <2>2, FrameType
  <2>4. net' = rest \cup {Frame("HELLO", n, p, Eph(n, runs[n] + 1))}
    BY <1>2 DEF InitiateHandshake
  <2>5. QED BY <2>1, <2>3, <2>4, StartRunType
<1>3. QED BY <1>1, <1>2

\* Every handler of a received frame keeps the types.
LEMMA DeliverType ==
  ASSUME HandshakeAssumption, TypeOK, NEW n \in Node, NEW p \in Node, Deliver(n, p)
  PROVE  TypeOK'
<1> USE DEF TypeOK
<1>1. PICK m \in net : m.dst = n /\ m.src = p /\
          \E rest \in {net \ {m}, net} :
              /\ faults' = IF rest = net THEN faults + 1 ELSE faults
              /\ \/ HandleHello(m, rest)
                 \/ HandleReply(m, rest)
                 \/ HandleConfirm(m, rest)
                 \/ IgnoreKeyFrame(m, rest)
                 \/ HandleWithdraw(m, rest)
                 \/ HandleArpReply(m, rest)
  BY DEF Deliver
<1>0. PICK rest \in {net \ {m}, net} :
          /\ faults' = IF rest = net THEN faults + 1 ELSE faults
          /\ \/ HandleHello(m, rest)
             \/ HandleReply(m, rest)
             \/ HandleConfirm(m, rest)
             \/ IgnoreKeyFrame(m, rest)
             \/ HandleWithdraw(m, rest)
             \/ HandleArpReply(m, rest)
  BY <1>1
<1>2. FrameOK(m) /\ \A f \in rest : FrameOK(f)
  BY <1>0
<1>3. faults' \in Nat
  BY <1>0 DEF VarsOK
<1>4. CASE HandleHello(m, rest)
  <2>1. m.type = "HELLO" /\ m.body \in Ephs
    BY <1>2, <1>4 DEF HandleHello, FrameOK
  <2>2. PICK i \in Slots : StartRun(n, p, i, "REPLY_SENT", m.body)
    BY <1>1, <1>4 DEF HandleHello
  <2>3. FrameOK(Frame("REPLY", n, p, Eph(n, runs[n] + 1)))
    BY EphType, FrameType DEF VarsOK
  <2>4. net' = rest \cup {Frame("REPLY", n, p, Eph(n, runs[n] + 1))}
    BY <1>1, <1>4 DEF HandleHello
  <2>5. \A f \in net' : FrameOK(f)
    BY <1>2, <2>3, <2>4
  <2>6. UNCHANGED <<link, routes, knownGw, defRoute, installed>>
    BY <1>4 DEF HandleHello
  <2>7. VarsOK'
    BY <1>3, <2>1, <2>2, <2>6, StartRunType DEF VarsOK
  <2>8. QED BY <2>5, <2>7 DEF TypeOK, VarsOK, FrameOK
<1>5. CASE HandleReply(m, rest)
  <2>1. m.type = "REPLY" /\ m.body \in Ephs
    BY <1>2, <1>5 DEF HandleReply, FrameOK
  <2>2. PICK i \in Slots :
            LET key == LinkKey(Eph(n, hs[n][i].run), m.body) IN
            /\ FindHandshake(n, p, i)
            /\ hs[n][i].state = "HELLO_SENT"
            /\ InstallKey(n, p, key, "initiator")
            /\ net' = rest \cup {Frame("CONFIRM", n, p, key)}
                           \cup Broadcast("ARP_REPLY", n, n)
    BY <1>1, <1>5 DEF HandleReply
  <2> DEFINE key == LinkKey(Eph(n, hs[n][i].run), m.body)
  <2>3. hs[n][i] \in Contexts
    BY DEF VarsOK
  <2>4. Eph(n, hs[n][i].run) \in Ephs
    BY <2>2, <2>3, EphType DEF Contexts
  <2>5. key \in SUBSET Ephs
    BY <2>1, <2>4 DEF LinkKey
  <2>6. InstallKey(n, p, key, "initiator")
    BY <2>2
  <2>7. /\ link' \in [Node -> [Node -> Links]]
        /\ installed' \in [Node -> SUBSET [peer : Node, key : SUBSET Ephs,
                                           role : {"initiator", "responder"}]]
    BY <2>5, <2>6, InstallType
  <2>8. hs' \in [Node -> [Slots -> Contexts]]
    BY <1>1, <1>5, FreeType DEF HandleReply
  <2>9. /\ routes' \in [Node -> SUBSET Node]
        /\ defRoute' \in [Node -> Node \cup {NoNode}]
    BY <1>1, <1>5, AddRouteType DEF HandleReply, VarsOK
  <2>10. UNCHANGED <<runs, knownGw>>
    BY <1>5 DEF HandleReply
  <2>11. VarsOK'
    BY <1>3, <2>7, <2>8, <2>9, <2>10 DEF VarsOK
  <2>12. net' = rest \cup {Frame("CONFIRM", n, p, key)}
                     \cup Broadcast("ARP_REPLY", n, n)
    BY <2>2
  <2>13. \A f \in net' : FrameOK(f)
    BY <1>2, <2>5, <2>12, FrameType
  <2>14. QED BY <2>11, <2>13 DEF FrameOK
<1>6. CASE HandleConfirm(m, rest)
  <2>1. PICK i \in Slots :
            LET key == LinkKey(Eph(n, hs[n][i].run), hs[n][i].theirs) IN
            /\ hs[n][i].state = "REPLY_SENT"
            /\ \/ /\ InstallKey(n, p, key, "responder")
                  /\ AddRoute(n, p)
                  /\ net' = rest \cup {Frame("CONFIRM", n, p, key)}
               \/ /\ net' = rest
                  /\ UNCHANGED <<link, routes, installed>>
    BY <1>1, <1>6 DEF HandleConfirm
  <2> DEFINE key == LinkKey(Eph(n, hs[n][i].run), hs[n][i].theirs)
  <2>2. hs[n][i] \in Contexts
    BY DEF VarsOK
  <2>3. Eph(n, hs[n][i].run) \in Ephs /\ hs[n][i].theirs \in Ephs
    BY <2>1, <2>2, EphType DEF Contexts
  <2>4. key \in SUBSET Ephs
    BY <2>3 DEF LinkKey
  <2>5. hs' \in [Node -> [Slots -> Contexts]]
    BY <1>1, <1>6, FreeType DEF HandleConfirm
  <2>6. UNCHANGED <<runs, knownGw, defRoute>>
    BY <1>6 DEF HandleConfirm
  <2>7. CASE /\ InstallKey(n, p, key, "responder")
             /\ AddRoute(n, p)
             /\ net' = rest \cup {Frame("CONFIRM", n, p, key)}
    <3>1. /\ link' \in [Node -> [Node -> Links]]
          /\ installed' \in [Node -> SUBSET [peer : Node, key : SUBSET Ephs,
                                             role : {"initiator", "responder"}]]
      BY <2>4, <2>7, InstallType
    <3>2. routes' \in [Node -> SUBSET Node]
      BY <2>7, AddRouteType
    <3>3. VarsOK'
      BY <1>3, <2>5, <2>6, <3>1, <3>2 DEF VarsOK
    <3>4. \A f \in net' : FrameOK(f)
      BY <1>2, <2>4, <2>7, FrameType
    <3>5. QED BY <3>3, <3>4 DEF FrameOK
  <2>8. CASE net' = rest /\ UNCHANGED <<link, routes, installed>>
    <3>1. VarsOK'
      BY <1>3, <2>5, <2>6, <2>8 DEF VarsOK
    <3>2. QED BY <1>2, <2>8, <3>1 DEF FrameOK
  <2>9. QED BY <2>1, <2>7, <2>8
<1>7. CASE IgnoreKeyFrame(m, rest)
  BY <1>2, <1>3, <1>7 DEF IgnoreKeyFrame, VarsOK, FrameOK
<1>8. CASE HandleWithdraw(m, rest)
  <2>1. m.body \in Node
    BY <1>2, <1>8 DEF HandleWithdraw, FrameOK
  <2>2. NoLink \in Links
    BY DEF NoLink, Links
  <2>3. /\ link' \in [Node -> [Node -> Links]]
        /\ routes' \in [Node -> SUBSET Node]
    <3>1. CASE m.body # n /\ m.body \in routes[n]
      <4>1. link' = [link EXCEPT ![n][m.body] = NoLink]
        BY <1>1, <1>8, <3>1 DEF HandleWithdraw
      <4>2. routes' = [routes EXCEPT ![n] = @ \ {m.body}]
        BY <1>1, <1>8, <3>1 DEF HandleWithdraw
      <4>3. link' \in [Node -> [Node -> Links]]
        BY <2>1, <2>2, <4>1 DEF VarsOK
      <4>4. routes' \in [Node -> SUBSET Node]
        BY <4>2 DEF VarsOK
      <4>5. QED BY <4>3, <4>4
    <3>2. CASE ~(m.body # n /\ m.body \in routes[n])
      BY <1>1, <1>8, <3>2 DEF HandleWithdraw, VarsOK
    <3>3. QED BY <3>1, <3>2
  <2>4. net' = rest /\ UNCHANGED <<hs, knownGw, defRoute, runs, installed>>
    BY <1>8 DEF HandleWithdraw
  <2>5. QED BY <1>2, <1>3, <2>3, <2>4 DEF VarsOK, FrameOK
<1>9. CASE HandleArpReply(m, rest)
  <2>1. m.body \in Node
    BY <1>2, <1>9 DEF HandleArpReply, FrameOK
  <2>2. routes' \in [Node -> SUBSET Node]
    BY <1>1, <1>9, <2>1, AddRouteType DEF HandleArpReply
  <2>3. net' = rest /\ UNCHANGED <<hs, link, knownGw, defRoute, runs, installed>>
    BY <1>9 DEF HandleArpReply
  <2>4. QED BY <1>2, <1>3, <2>2, <2>3 DEF VarsOK, FrameOK
<1>10. QED BY <1>0, <1>4, <1>5, <1>6, <1>7, <1>8, <1>9

\* Every step keeps the types.
LEMMA TypeStep == HandshakeAssumption /\ TypeOK /\ [Next]_vars => TypeOK'
<1> SUFFICES ASSUME HandshakeAssumption, TypeOK, [Next]_vars
             PROVE  TypeOK'
  OBVIOUS
<1> USE DEF TypeOK
<1>0. NoLink \in Links /\ \A q \in Node \cup {NoNode} : FreeSlot(q) \in Contexts
  BY DEF NoLink, Links, FreeSlot, Contexts
<1>1. CASE UNCHANGED vars
  BY <1>1 DEF vars, VarsOK, FrameOK
<1>2. ASSUME NEW n \in Node, NEW p \in Node, HandleJoinBeacon(n, p)
      PROVE  TypeOK'
  <2>1. InitiateHandshake(n, p, net)
    BY <1>2 DEF HandleJoinBeacon
  <2>2. /\ hs' \in [Node -> [Slots -> Contexts]]
        /\ runs' \in [Node -> Nat]
        /\ \A m \in net' : FrameOK(m)
    BY <2>1, InitiateType
  <2>3. knownGw' \in [Node -> Node \cup {NoNode}]
    BY <1>2 DEF HandleJoinBeacon, VarsOK
  <2>4. QED BY <1>2, <2>2, <2>3 DEF HandleJoinBeacon, VarsOK, FrameOK
<1>3. ASSUME NEW n \in Node, NEW p \in Node, Deliver(n, p)
      PROVE  TypeOK'
  BY <1>3, DeliverType
<1>4. ASSUME NEW n \in Node, NEW p \in Node, HandleKeyNack(n, p)
      PROVE  TypeOK'
  <2>1. InitiateHandshake(n, p, net)
    BY <1>4 DEF HandleKeyNack
  <2>2. /\ hs' \in [Node -> [Slots -> Contexts]]
        /\ runs' \in [Node -> Nat]
        /\ \A m \in net' : FrameOK(m)
    BY <2>1, InitiateType
  <2>3. link' \in [Node -> [Node -> Links]]
    <3>1. [st |-> "stale", key |-> link[n][p].key] \in Links
      BY DEF VarsOK, Links
    <3>2. QED BY <1>4, <3>1 DEF HandleKeyNack, VarsOK
  <2>4. QED BY <1>4, <2>2, <2>3 DEF HandleKeyNack, Fault, VarsOK, FrameOK
<1>5. ASSUME NEW n \in Node, NEW p \in Node, DropSilentPeer(n, p)
      PROVE  TypeOK'
  <2>1. link' \in [Node -> [Node -> Links]]
    BY <1>0, <1>5 DEF DropSilentPeer, VarsOK
  <2>2. routes' \in [Node -> SUBSET Node] /\ faults' \in Nat
    BY <1>5 DEF DropSilentPeer, Fault, VarsOK
  <2>3. \A m \in net' : FrameOK(m)
    BY <1>5, FrameType DEF DropSilentPeer
  <2>4. QED BY <1>5, <2>1, <2>2, <2>3 DEF DropSilentPeer, VarsOK, FrameOK
<1>6. ASSUME NEW n \in Node, NEW i \in Slots, ExpireContext(n, i)
      PROVE  TypeOK'
  <2>1. hs[n][i].peer \in Node \cup {NoNode}
    BY DEF VarsOK, Contexts
  <2>2. hs' \in [Node -> [Slots -> Contexts]]
    BY <1>0, <1>6, <2>1 DEF ExpireContext, VarsOK
  <2>3. QED BY <1>6, <2>2 DEF ExpireContext, VarsOK, FrameOK
<1>10. ASSUME NEW n \in Node, RotateEpoch(n)
      PROVE  TypeOK'
  <2>1. \A p \in Node : [st |-> "stale", key |-> link[n][p].key] \in Links
    BY DEF VarsOK, Links
  <2>2. link' \in [Node -> [Node -> Links]]
    BY <1>10, <2>1 DEF RotateEpoch, VarsOK
  <2>3. QED BY <1>10, <2>2 DEF RotateEpoch, Fault, VarsOK, FrameOK
<1>7. ASSUME NEW n \in Node, Restart(n)
      PROVE  TypeOK'
  <2>1. hs' \in [Node -> [Slots -> Contexts]]
    BY <1>0, <1>7 DEF Restart, VarsOK
  <2>2. link' \in [Node -> [Node -> Links]]
    BY <1>0, <1>7 DEF Restart, VarsOK
  <2>3. QED BY <1>7, <2>1, <2>2 DEF Restart, Fault, VarsOK, FrameOK
<1>8. ASSUME NEW m \in net, Lose(m)
      PROVE  TypeOK'
  BY <1>8 DEF Lose, Fault, VarsOK, FrameOK
<1>9. QED BY <1>1, <1>2, <1>3, <1>4, <1>5, <1>6, <1>7, <1>8, <1>10 DEF Next

\* Type correctness of the handshake.
THEOREM TypeCorrect == Spec => []TypeOK
<1>1. Init => TypeOK
  BY DEF Init, TypeOK, VarsOK, FreeSlot, NoLink, Contexts, Links
<1>2. TypeOK /\ [Next]_vars => TypeOK'
  BY TypeStep, HandshakeAssumption
<1>3. QED BY <1>1, <1>2, PTL DEF Spec

-----------------------------------------------------------------------------
(* The safety invariants.                                                   *)
(*                                                                          *)
(* OneContextPerMac is inductive on its own.  The others hold together: a   *)
(* CONFIRM is believed because of what its sender had installed (Genuine),  *)
(* an installation is new because the context it comes from has served      *)
(* none (ContextUnserved), and that a context is gone once it has served is *)
(* OneContextPerMac again.                                                  *)


\* Every context in use is for another node, from a draw of its own and, once
\* it has answered, from a draw of that node.
ContextsGenuine ==
  \A n \in Node, i \in Slots : Active(n, i) =>
    /\ hs[n][i].peer \in Node \ {n}
    /\ hs[n][i].run \in 1..runs[n]
    /\ hs[n][i].state = "REPLY_SENT" =>
         /\ hs[n][i].theirs.owner = hs[n][i].peer
         /\ hs[n][i].theirs.run \in 1..runs[hs[n][i].peer]

\* Two contexts in use come from two draws.
DistinctRuns ==
  \A n \in Node, i, j \in Slots :
    Active(n, i) /\ Active(n, j) /\ hs[n][i].run = hs[n][j].run => i = j

\* A HELLO or REPLY carries a draw of its sender; the sender of a CONFIRM has
\* installed the key it confirms for the node it confirms it to.
Genuine(m) ==
  m.type \in KeyFrames =>
    /\ m.src # m.dst
    /\ m.type \in {"HELLO", "REPLY"} =>
         m.body.owner = m.src /\ m.body.run \in 1..runs[m.src]
    /\ m.type = "CONFIRM" =>
         \E role \in {"initiator", "responder"} :
           [peer |-> m.dst, key |-> m.body, role |-> role] \in installed[m.src]

FramesGenuine == \A m \in net : Genuine(m)

\* An installed key joins a draw of the node and one of the peer.
Joins(n, p, key) ==
  \E i \in 1..runs[n], j \in 1..runs[p] : key = LinkKey(Eph(n, i), Eph(p, j))

InstalledDrawn ==
  \A n \in Node : \A r \in installed[n] : r.peer # n /\ Joins(n, r.peer, r.key)

\* The peer table holds keys that were installed for that peer.
LinkInstalled ==
  \A n, p \in Node : link[n][p].st # "none" =>
    \E role \in {"initiator", "responder"} :
      [peer |-> p, key |-> link[n][p].key, role |-> role] \in installed[n]

\* EphemeralsServeOnce without its bound, in two halves.
ServedOnce ==
  \A n \in Node : \A r, s \in installed[n] : \A k \in Nat :
    Eph(n, k) \in r.key \cap s.key => r = s
ContextUnserved ==
  \A n \in Node, i \in Slots : \A r \in installed[n] :
    Active(n, i) => Eph(n, hs[n][i].run) \notin r.key

TableInv == OneContextPerMac /\ ContextsGenuine /\ DistinctRuns /\ ContextUnserved

KeyInv == InstalledDrawn /\ LinkInstalled /\ ServedOnce /\ ResponderKeyIsInitiators

IInv == TypeOK /\ TableInv /\ KeyInv /\ FramesGenuine

-----------------------------------------------------------------------------
(* The context table.                                                       *)

\* Starting a run in the slot _allocHandshake returns keeps the table in order.
LEMMA StartRunTable ==
  ASSUME HandshakeAssumption, TypeOK, TableInv, InstalledDrawn,
         NEW n \in Node, NEW p \in Node \ {n}, NEW i \in Slots,
         AllocHandshake(n, p, i), NEW state, NEW theirs,
         state = "HELLO_SENT" \/ state = "REPLY_SENT",
         state = "REPLY_SENT" => theirs.owner = p /\ theirs.run \in 1..runs[p],
         StartRun(n, p, i, state, theirs), UNCHANGED installed
  PROVE  TableInv'
<1> DEFINE ctx == [peer |-> p, state |-> state, run |-> runs[n] + 1, theirs |-> theirs]
<1>1. /\ hs \in [Node -> [Slots -> Contexts]]
      /\ runs \in [Node -> Nat]
  BY DEF TypeOK, VarsOK
<1>2. /\ \A q \in Node, j \in Slots :
            hs'[q][j] = IF q = n /\ j = i THEN ctx ELSE hs[q][j]
      /\ \A q \in Node : runs'[q] = IF q = n THEN runs[n] + 1 ELSE runs[q]
  BY <1>1 DEF StartRun
<1>3. \A q \in Node : runs[q] \in Nat /\ runs'[q] \in Nat /\ runs[q] <= runs'[q]
  BY <1>1, <1>2
<1>4. \A q \in Node, j \in Slots : ~(q = n /\ j = i) => hs'[q][j] = hs[q][j]
  BY <1>2
<1>5. hs'[n][i] = ctx /\ runs'[n] = runs[n] + 1
  BY <1>2
<1>6. OneContextPerMac'
  <2>1. \A j \in Slots \ {i} :
          hs[n][j].peer = p => ~Active(n, j) /\ i < j
    <3>1. CASE ActiveFor(n, p) # {}
      <4>1. i \in Slots /\ Active(n, i) /\ hs[n][i].peer = p
        BY <3>1 DEF AllocHandshake, FindHandshake, First, ActiveFor
      <4>2. QED BY <4>1 DEF TableInv, OneContextPerMac
    <3>2. CASE ActiveFor(n, p) = {} /\ IdleSlots(n) # {}
      <4>1. \A j \in IdleSlots(n) : i <= j
        BY <3>2 DEF AllocHandshake, First
      <4>2. \A j \in Slots : hs[n][j].peer = p => j \in IdleSlots(n)
        BY <3>2 DEF ActiveFor, IdleSlots
      <4>3. \A j \in Slots : j \in Int
        BY HandshakeAssumption DEF HandshakeAssumption, Slots
      <4>4. \A j \in Slots \ {i} : hs[n][j].peer = p => i < j
        BY <4>1, <4>2, <4>3
      <4>5. QED BY <4>2, <4>4 DEF IdleSlots
    <3>3. CASE ActiveFor(n, p) = {} /\ IdleSlots(n) = {}
      BY <3>3 DEF ActiveFor, IdleSlots
    <3>4. QED BY <3>1, <3>2, <3>3
  <2>2. SUFFICES ASSUME NEW q \in Node, NEW j \in Slots, NEW k \in Slots,
                        Active(q, k)', j # k, hs'[q][j].peer = hs'[q][k].peer
                 PROVE  ~Active(q, j)' /\ k < j
    BY DEF OneContextPerMac
  <2>3. CASE q = n /\ k = i
    BY <1>4, <1>5, <2>1, <2>2, <2>3 DEF Active
  <2>4. CASE q = n /\ j = i
    BY <1>4, <1>5, <2>1, <2>2, <2>4 DEF Active
  <2>5. CASE ~(q = n /\ (j = i \/ k = i))
    BY <1>4, <2>2, <2>5 DEF Active, TableInv, OneContextPerMac
  <2>6. QED BY <2>3, <2>4, <2>5
<1>7. ContextsGenuine'
  <2>1. SUFFICES ASSUME NEW q \in Node, NEW j \in Slots, Active(q, j)'
                 PROVE  /\ hs'[q][j].peer \in Node \ {q}
                        /\ hs'[q][j].run \in 1..runs'[q]
                        /\ hs'[q][j].state = "REPLY_SENT" =>
                             /\ hs'[q][j].theirs.owner = hs'[q][j].peer
                             /\ hs'[q][j].theirs.run \in 1..runs'[hs'[q][j].peer]
    BY DEF ContextsGenuine
  <2>2. CASE q = n /\ j = i
    BY <1>2, <1>3, <1>5, <2>2
  <2>3. CASE ~(q = n /\ j = i)
    <3>1. Active(q, j) /\ hs'[q][j] = hs[q][j]
      BY <1>4, <2>1, <2>3 DEF Active
    <3>2. /\ hs[q][j].peer \in Node \ {q}
          /\ hs[q][j].run \in 1..runs[q]
          /\ hs[q][j].state = "REPLY_SENT" =>
               /\ hs[q][j].theirs.owner = hs[q][j].peer
               /\ hs[q][j].theirs.run \in 1..runs[hs[q][j].peer]
      BY <3>1 DEF TableInv, ContextsGenuine
    <3>3. QED BY <1>3, <3>1, <3>2
  <2>4. QED BY <2>2, <2>3
<1>8. DistinctRuns'
  <2>1. \A j \in Slots : Active(n, j) => hs[n][j].run \in 1..runs[n]
    BY DEF TableInv, ContextsGenuine
  <2>2. \A j \in Slots \ {i} : Active(n, j) => hs[n][j].run # runs[n] + 1
    BY <1>3, <2>1
  <2>3. QED BY <1>4, <1>5, <2>2 DEF DistinctRuns, TableInv, Active
<1>9. ContextUnserved'
  <2>1. \A r \in installed[n] : Eph(n, runs[n] + 1) \notin r.key
    <3>1. SUFFICES ASSUME NEW r \in installed[n], Eph(n, runs[n] + 1) \in r.key
                   PROVE  FALSE
      OBVIOUS
    <3>2. r.peer # n /\ Joins(n, r.peer, r.key)
      BY DEF InstalledDrawn
    <3>3. PICK k \in 1..runs[n], l \in 1..runs[r.peer] :
                 r.key = LinkKey(Eph(n, k), Eph(r.peer, l))
      BY <3>2 DEF Joins
    <3>4. QED BY <1>3, <3>1, <3>2, <3>3 DEF LinkKey, Eph
  <2>2. QED BY <1>4, <1>5, <2>1 DEF ContextUnserved, TableInv, Active
<1>10. QED BY <1>6, <1>7, <1>8, <1>9 DEF TableInv

\* So does clearing a context in use, whatever is installed as long as it
\* comes from that context.
LEMMA ClearTable ==
  ASSUME HandshakeAssumption, TypeOK, TableInv,
         NEW n \in Node, NEW i \in Slots, Active(n, i),
         hs' = [hs EXCEPT ![n][i] = FreeSlot(hs[n][i].peer)],
         UNCHANGED runs,
         \A q \in Node : \A r \in installed'[q] :
           \/ r \in installed[q]
           \/ /\ q = n
              /\ \A k \in Nat : Eph(n, k) \in r.key => k = hs[n][i].run
  PROVE  TableInv'
<1>1. hs \in [Node -> [Slots -> Contexts]]
  BY DEF TypeOK, VarsOK
<1>2. /\ \A q \in Node, j \in Slots : ~(q = n /\ j = i) => hs'[q][j] = hs[q][j]
      /\ hs'[n][i].peer = hs[n][i].peer
      /\ ~Active(n, i)'
  BY <1>1 DEF FreeSlot, Active
<1>3. \A q \in Node, j \in Slots :
        Active(q, j)' => ~(q = n /\ j = i) /\ Active(q, j) /\ hs'[q][j] = hs[q][j]
  BY <1>2 DEF Active
<1>4. OneContextPerMac'
  <2>1. SUFFICES ASSUME NEW q \in Node, NEW j \in Slots, NEW k \in Slots,
                        Active(q, k)', j # k, hs'[q][j].peer = hs'[q][k].peer
                 PROVE  ~Active(q, j)' /\ k < j
    BY DEF OneContextPerMac
  <2>2. Active(q, k) /\ hs'[q][k] = hs[q][k] /\ hs'[q][j].peer = hs[q][j].peer
    BY <1>2, <1>3, <2>1
  <2>3. ~Active(q, j) /\ k < j
    BY <2>1, <2>2 DEF TableInv, OneContextPerMac
  <2>4. QED BY <1>3, <2>3
<1>5. ContextsGenuine' /\ DistinctRuns'
  BY <1>3 DEF TableInv, ContextsGenuine, DistinctRuns
<1>6. ContextUnserved'
  <2>1. SUFFICES ASSUME NEW q \in Node, NEW j \in Slots, NEW r \in installed'[q],
                        Active(q, j)', Eph(q, hs'[q][j].run) \in r.key
                 PROVE  FALSE
    BY DEF ContextUnserved
  <2>2. Active(q, j) /\ hs'[q][j] = hs[q][j] /\ ~(q = n /\ j = i)
    BY <1>3, <2>1
  <2>3. CASE r \in installed[q]
    BY <2>1, <2>2, <2>3 DEF TableInv, ContextUnserved
  <2>4. CASE q = n /\ \A k \in Nat : Eph(n, k) \in r.key => k = hs[n][i].run
    <3>1. hs[n][j].run \in Nat
      BY <1>1, <2>2, <2>4 DEF Contexts, Active
    <3>2. hs[n][j].run = hs[n][i].run
      BY <2>1, <2>2, <2>4, <3>1
    <3>3. QED BY <2>2, <2>4, <3>2 DEF TableInv, DistinctRuns
  <2>5. QED BY <2>3, <2>4
<1>7. QED BY <1>4, <1>5, <1>6 DEF TableInv

\* _freeHandshake clears the context _findHandshake found.
LEMMA FreeFound ==
  ASSUME HandshakeAssumption, TypeOK, TableInv,
         NEW n \in Node, NEW p \in Node, NEW i \in Slots,
         FindHandshake(n, p, i), FreeHandshake(n, p)
  PROVE  Active(n, i) /\ hs[n][i].peer = p
         /\ hs' = [hs EXCEPT ![n][i] = FreeSlot(hs[n][i].peer)]
<1>1. Active(n, i) /\ hs[n][i].peer = p
  BY DEF FindHandshake, First, ActiveFor
<1>2. PICK j \in Slots : First(j, MacSlots(n, p)) /\ hs' = [hs EXCEPT ![n][j] = FreeSlot(p)]
  BY DEF FreeHandshake
<1>3. hs[n][j].peer = p /\ j <= i
  BY <1>1, <1>2 DEF First, MacSlots
<1>4. i = j
  <2>1. i \in Int /\ j \in Int
    BY HandshakeAssumption DEF HandshakeAssumption, Slots
  <2>2. j # i => i < j
    BY <1>1, <1>3 DEF TableInv, OneContextPerMac
  <2>3. QED BY <1>3, <2>1, <2>2
<1>5. QED BY <1>1, <1>2, <1>4

\* Where no exchange is started, cleared or served, the table stays in order.
LEMMA SameTable ==
  ASSUME TableInv, UNCHANGED <<hs, runs, installed>>
  PROVE  TableInv'
  BY DEF TableInv, OneContextPerMac, ContextsGenuine, DistinctRuns,
         ContextUnserved, Active

-----------------------------------------------------------------------------
(* Installed keys.                                                          *)

\* What is genuine stays so: draws and installations are never undone.
LEMMA StillGenuine ==
  ASSUME TypeOK, FramesGenuine,
         \A q \in Node : runs'[q] \in Nat /\ runs[q] <= runs'[q],
         \A q \in Node : installed[q] \subseteq installed'[q],
         NEW m \in net
  PROVE  Genuine(m)'
<1>1. Genuine(m) /\ FrameOK(m) /\ runs[m.src] \in Nat
  BY DEF FramesGenuine, TypeOK, FrameOK, VarsOK
<1>2. CASE m.type \notin KeyFrames
  BY <1>2 DEF Genuine
<1>3. CASE m.type \in KeyFrames
  <2>1. m.src \in Node /\ m.src # m.dst
    BY <1>1, <1>3 DEF Genuine, FrameOK
  <2>2. m.type \in {"HELLO", "REPLY"} =>
          m.body.owner = m.src /\ m.body.run \in 1..runs'[m.src]
    BY <1>1, <1>3, <2>1 DEF Genuine
  <2>3. m.type = "CONFIRM" =>
          \E role \in {"initiator", "responder"} :
            [peer |-> m.dst, key |-> m.body, role |-> role] \in installed'[m.src]
    BY <1>1, <1>3, <2>1 DEF Genuine
  <2>4. QED BY <2>1, <2>2, <2>3 DEF Genuine
<1>4. QED BY <1>2, <1>3

\* Where nothing is installed and no link changes but by losing its peer or
\* its validity, the keys stay as they are.
LEMMA SameKeys ==
  ASSUME TypeOK, KeyInv, UNCHANGED installed,
         \A q \in Node : runs'[q] \in Nat /\ runs[q] <= runs'[q],
         \A q, p \in Node : link'[q][p].st # "none" =>
           link[q][p].st # "none" /\ link'[q][p].key = link[q][p].key
  PROVE  KeyInv'
<1>1. InstalledDrawn'
  <2>1. SUFFICES ASSUME NEW q \in Node, NEW r \in installed[q]
                 PROVE  r.peer # q /\ Joins(q, r.peer, r.key)'
    BY DEF InstalledDrawn
  <2>2. r.peer # q /\ Joins(q, r.peer, r.key) /\ r.peer \in Node
        /\ runs[q] \in Nat /\ runs[r.peer] \in Nat
    BY DEF KeyInv, InstalledDrawn, TypeOK, VarsOK
  <2>3. PICK i \in 1..runs[q], j \in 1..runs[r.peer] :
               r.key = LinkKey(Eph(q, i), Eph(r.peer, j))
    BY <2>2 DEF Joins
  <2>4. i \in 1..runs'[q] /\ j \in 1..runs'[r.peer]
    BY <2>2
  <2>5. QED BY <2>2, <2>3, <2>4 DEF Joins
<1>2. LinkInstalled'
  BY DEF KeyInv, LinkInstalled
<1>3. ServedOnce' /\ ResponderKeyIsInitiators'
  BY DEF KeyInv, ServedOnce, ResponderKeyIsInitiators
<1>4. QED BY <1>1, <1>2, <1>3 DEF KeyInv

\* The one step that installs a key: from a draw of the context that is freed
\* and a draw of the peer, for an initiator that has it if n is the responder.
LEMMA InstallKeys ==
  ASSUME HandshakeAssumption, TypeOK, TableInv, KeyInv,
         NEW n \in Node, NEW p \in Node \ {n}, NEW i \in Slots, NEW e \in Ephs,
         NEW role \in {"initiator", "responder"}, NEW key,
         FindHandshake(n, p, i), e.owner = p, e.run \in 1..runs[p],
         key = LinkKey(Eph(n, hs[n][i].run), e),
         role = "responder" =>
           [peer |-> n, key |-> key, role |-> "initiator"] \in installed[p],
         InstallKey(n, p, key, role), FreeHandshake(n, p), UNCHANGED runs
  PROVE  /\ TableInv' /\ KeyInv'
         /\ \A q \in Node : installed[q] \subseteq installed'[q]
         /\ [peer |-> p, key |-> key, role |-> role] \in installed'[n]
<1> DEFINE new == [peer |-> p, key |-> key, role |-> role]
<1>1. /\ installed \in [Node -> SUBSET [peer : Node, key : SUBSET Ephs,
                                        role : {"initiator", "responder"}]]
      /\ link \in [Node -> [Node -> Links]]
      /\ runs \in [Node -> Nat]
      /\ hs \in [Node -> [Slots -> Contexts]]
  BY DEF TypeOK, VarsOK
<1>2. /\ \A q \in Node : installed'[q] = installed[q] \cup (IF q = n THEN {new} ELSE {})
      /\ \A q \in Node : installed[q] \subseteq installed'[q]
      /\ new \in installed'[n]
  BY <1>1 DEF InstallKey
<1>3. Active(n, i) /\ hs' = [hs EXCEPT ![n][i] = FreeSlot(hs[n][i].peer)]
  BY FreeFound
<1>4. hs[n][i].run \in 1..runs[n] /\ hs[n][i].run \in Nat
  BY <1>1, <1>3 DEF TableInv, ContextsGenuine
<1>5. \A k \in Nat : Eph(n, k) \in key => k = hs[n][i].run
  BY DEF LinkKey, Eph
<1>6. TableInv'
  <2>1. \A q \in Node : \A r \in installed'[q] :
          \/ r \in installed[q]
          \/ q = n /\ \A k \in Nat : Eph(n, k) \in r.key => k = hs[n][i].run
    BY <1>2, <1>5
  <2>2. QED BY <1>3, <2>1, ClearTable
<1>7. InstalledDrawn'
  <2>1. e = Eph(p, e.run)
    BY DEF Ephs, Eph
  <2>2. Joins(n, p, key)
    BY <1>4, <2>1 DEF Joins
  <2>3. QED BY <1>2, <2>2 DEF KeyInv, InstalledDrawn, Joins
<1>8. LinkInstalled'
  <2>1. SUFFICES ASSUME NEW q \in Node, NEW m \in Node, link'[q][m].st # "none",
                        ~(q = n /\ m = p)
                 PROVE  \E r \in {"initiator", "responder"} :
                          [peer |-> m, key |-> link'[q][m].key, role |-> r] \in installed[q]
    <3>1. link'[n][p].key = key
      BY <1>1 DEF InstallKey, Peers, Links
    <3>2. QED BY <1>2, <3>1 DEF LinkInstalled
  <2>2. link[q][m].st # "none" /\ link'[q][m] = link[q][m]
    <3>1. CASE link' = [link EXCEPT ![n][p] = [st |-> "est", key |-> key]]
      BY <1>1, <2>1, <3>1
    <3>2. CASE \E v \in Peers(n) : link' = [link EXCEPT ![n] =
                    [x \in Node |-> IF x = v THEN NoLink
                                    ELSE IF x = p THEN [st |-> "est", key |-> key]
                                    ELSE link[n][x]]]
      BY <1>1, <2>1, <3>2 DEF NoLink
    <3>3. QED BY <3>1, <3>2 DEF InstallKey
  <2>3. QED BY <2>2 DEF KeyInv, LinkInstalled
<1>9. ServedOnce'
  <2>1. SUFFICES ASSUME NEW q \in Node, NEW r \in installed'[q], NEW s \in installed'[q],
                        NEW k \in Nat, Eph(q, k) \in r.key, Eph(q, k) \in s.key
                 PROVE  r = s
    BY DEF ServedOnce
  <2>2. \A t \in installed[n] : Eph(n, hs[n][i].run) \notin t.key
    BY <1>3 DEF TableInv, ContextUnserved
  <2>3. CASE r \in installed[q] /\ s \in installed[q]
    BY <2>1, <2>3 DEF KeyInv, ServedOnce
  <2>4. CASE q = n /\ r = new /\ s \in installed[n]
    BY <1>5, <2>1, <2>2, <2>4
  <2>5. CASE q = n /\ s = new /\ r \in installed[n]
    BY <1>5, <2>1, <2>2, <2>5
  <2>6. CASE r = new /\ s = new
    BY <2>6
  <2>7. QED BY <1>2, <2>3, <2>4, <2>5, <2>6
<1>10. ResponderKeyIsInitiators'
  <2>1. SUFFICES ASSUME NEW q \in Node, NEW r \in installed'[q], r.role = "responder"
                 PROVE  [peer |-> q, key |-> r.key, role |-> "initiator"]
                          \in installed'[r.peer]
    BY DEF ResponderKeyIsInitiators
  <2>2. CASE r \in installed[q]
    <3>1. r.peer \in Node
      BY <1>1, <2>2
    <3>2. [peer |-> q, key |-> r.key, role |-> "initiator"] \in installed[r.peer]
      BY <2>1, <2>2 DEF KeyInv, ResponderKeyIsInitiators
    <3>3. QED BY <1>2, <3>1, <3>2
  <2>3. CASE q = n /\ r = new
    BY <1>2, <2>1, <2>3
  <2>4. QED BY <1>2, <2>2, <2>3
<1>11. QED BY <1>2, <1>6, <1>7, <1>8, <1>9, <1>10 DEF KeyInv

-----------------------------------------------------------------------------
(* The steps.                                                               *)

\* _initiateHandshake, for another node.
LEMMA InitiateStep ==
  ASSUME HandshakeAssumption, IInv, NEW n \in Node, NEW p \in Node \ {n},
         InitiateHandshake(n, p, net), UNCHANGED installed
  PROVE  /\ TableInv' /\ FramesGenuine'
         /\ \A q \in Node : runs'[q] \in Nat /\ runs[q] <= runs'[q]
<1> USE DEF IInv
<1>1. runs \in [Node -> Nat]
  BY DEF TypeOK, VarsOK
<1>2. CASE ActiveFor(n, p) # {}
  <2>1. net' = net /\ UNCHANGED <<hs, runs>>
    BY <1>2 DEF InitiateHandshake
  <2>2. TableInv'
    BY <2>1, SameTable
  <2>3. \A q \in Node : runs'[q] \in Nat /\ runs[q] <= runs'[q]
    BY <1>1, <2>1
  <2>4. FramesGenuine'
    BY <2>1, <2>3, StillGenuine DEF FramesGenuine
  <2>5. QED BY <2>2, <2>3, <2>4
<1>3. CASE ActiveFor(n, p) = {}
  <2>1. PICK i \in Slots : AllocHandshake(n, p, i) /\ StartRun(n, p, i, "HELLO_SENT", NoEph)
    BY <1>3 DEF InitiateHandshake
  <2>2. TableInv'
    BY <2>1, StartRunTable DEF KeyInv
  <2>3. runs' = [runs EXCEPT ![n] = @ + 1]
    BY <2>1 DEF StartRun
  <2>4. \A q \in Node : runs'[q] \in Nat /\ runs[q] <= runs'[q]
    BY <1>1, <2>3
  <2>5. net' = net \cup {Frame("HELLO", n, p, Eph(n, runs[n] + 1))}
    BY <1>3 DEF InitiateHandshake
  <2>6. ASSUME NEW m, m = Frame("HELLO", n, p, Eph(n, runs[n] + 1))
        PROVE  Genuine(m)'
    BY <1>1, <2>3, <2>6 DEF Genuine, Frame, Eph
  <2>7. FramesGenuine'
    BY <2>4, <2>5, <2>6, StillGenuine DEF FramesGenuine
  <2>8. QED BY <2>2, <2>4, <2>7
<1>4. QED BY <1>2, <1>3

\* The broadcasts of the model are not frames of the exchange.
LEMMA BroadcastOutside ==
  ASSUME NEW n, NEW q, NEW t \in {"ARP_REPLY", "ROUTE_WITHDRAW"}
  PROVE  \A f \in Broadcast(t, n, q) : f.type \notin KeyFrames
<1>1. ASSUME NEW f \in Broadcast(t, n, q)
      PROVE  f.type \notin KeyFrames
  <2>1. PICK r \in Node : f = Frame(t, n, r, q)
    BY DEF Broadcast
  <2>2. QED BY <2>1 DEF Frame, KeyFrames
<1>2. QED BY <1>1

\* Where nothing is drawn, installed or sent but frames outside the exchange.
LEMMA SameFrames ==
  ASSUME TypeOK, FramesGenuine, UNCHANGED <<runs, installed>>,
         \A m \in net' : m \in net \/ m.type \notin KeyFrames
  PROVE  FramesGenuine'
<1>1. \A q \in Node : runs'[q] \in Nat /\ runs[q] <= runs'[q]
  BY DEF TypeOK, VarsOK
<1>2. \A q \in Node : installed[q] \subseteq installed'[q]
  OBVIOUS
<1>3. \A m \in net : Genuine(m)'
  BY <1>1, <1>2, StillGenuine
<1>4. QED BY <1>3 DEF FramesGenuine, Genuine

\* The initiator's end of the exchange.
LEMMA ReplyStep ==
  ASSUME HandshakeAssumption, IInv, NEW m \in net, NEW rest \in SUBSET net,
         HandleReply(m, rest)
  PROVE  TableInv' /\ KeyInv' /\ FramesGenuine'
<1> USE DEF IInv
<1> DEFINE n == m.dst
           p == m.src
<1>1. m.type = "REPLY" /\ FrameOK(m) /\ Genuine(m)
  BY DEF HandleReply, TypeOK, FramesGenuine
<1>2. /\ n \in Node /\ p \in Node \ {n}
      /\ m.body \in Ephs /\ m.body.owner = p /\ m.body.run \in 1..runs[p]
  BY <1>1 DEF FrameOK, Genuine, KeyFrames
<1>3. PICK i \in Slots :
          LET key == LinkKey(Eph(n, hs[n][i].run), m.body) IN
          /\ FindHandshake(n, p, i)
          /\ InstallKey(n, p, key, "initiator")
          /\ net' = rest \cup {Frame("CONFIRM", n, p, key)}
                         \cup Broadcast("ARP_REPLY", n, n)
  BY DEF HandleReply
<1> DEFINE key == LinkKey(Eph(n, hs[n][i].run), m.body)
<1>4. FreeHandshake(n, p) /\ UNCHANGED runs
  BY DEF HandleReply
<1>5. /\ TableInv' /\ KeyInv'
      /\ \A q \in Node : installed[q] \subseteq installed'[q]
      /\ [peer |-> p, key |-> key, role |-> "initiator"] \in installed'[n]
  <2> HIDE DEF n, p
  <2>1. key = LinkKey(Eph(n, hs[n][i].run), m.body)
    OBVIOUS
  <2>2. FindHandshake(n, p, i) /\ InstallKey(n, p, key, "initiator")
    BY <1>3
  <2> HIDE DEF key
  <2>3. QED BY <1>2, <1>4, <2>1, <2>2, InstallKeys
<1>6. \A q \in Node : runs'[q] \in Nat /\ runs[q] <= runs'[q]
  BY <1>4 DEF TypeOK, VarsOK
<1>7. \A f \in rest : Genuine(f)'
  BY <1>5, <1>6, StillGenuine
<1>8. ASSUME NEW f, f = Frame("CONFIRM", n, p, key)
      PROVE  Genuine(f)'
  <2>1. f.type = "CONFIRM" /\ f.src = n /\ f.dst = p /\ f.body = key
    BY <1>8 DEF Frame
  <2> HIDE DEF n, p, key
  <2>2. QED BY <1>2, <1>5, <2>1 DEF Genuine
<1>9. \A f \in Broadcast("ARP_REPLY", n, n) : Genuine(f)'
  BY BroadcastOutside DEF Genuine
<1>10. QED BY <1>3, <1>5, <1>7, <1>8, <1>9 DEF FramesGenuine

\* The responder's end of the exchange.
LEMMA ConfirmStep ==
  ASSUME HandshakeAssumption, IInv, NEW m \in net, NEW rest \in SUBSET net,
         HandleConfirm(m, rest)
  PROVE  TableInv' /\ KeyInv' /\ FramesGenuine'
<1> USE DEF IInv
<1> DEFINE n == m.dst
           p == m.src
<1>1. m.type = "CONFIRM" /\ FrameOK(m) /\ Genuine(m)
  BY DEF HandleConfirm, TypeOK, FramesGenuine
<1>2. n \in Node /\ p \in Node \ {n}
  BY <1>1 DEF FrameOK, Genuine, KeyFrames
<1>3. PICK i \in Slots :
          LET key == LinkKey(Eph(n, hs[n][i].run), hs[n][i].theirs) IN
          /\ FindHandshake(n, p, i)
          /\ hs[n][i].state = "REPLY_SENT"
          /\ \/ /\ ConfirmMatches(n, i, m)
                /\ InstallKey(n, p, key, "responder")
                /\ net' = rest \cup {Frame("CONFIRM", n, p, key)}
             \/ /\ net' = rest
                /\ UNCHANGED <<link, routes, installed>>
  BY DEF HandleConfirm
<1> DEFINE key == LinkKey(Eph(n, hs[n][i].run), hs[n][i].theirs)
<1>4. FreeHandshake(n, p) /\ UNCHANGED runs
  BY DEF HandleConfirm
<1>5. Active(n, i) /\ hs[n][i].peer = p
      /\ hs' = [hs EXCEPT ![n][i] = FreeSlot(hs[n][i].peer)]
  <2> HIDE DEF n, p
  <2>1. QED BY <1>2, <1>3, <1>4, FreeFound
<1>6. \A q \in Node : runs'[q] \in Nat /\ runs[q] <= runs'[q]
  BY <1>4 DEF TypeOK, VarsOK
<1>7. CASE /\ ConfirmMatches(n, i, m)
           /\ InstallKey(n, p, key, "responder")
           /\ net' = rest \cup {Frame("CONFIRM", n, p, key)}
  <2>1. /\ hs[n][i].theirs \in Ephs
        /\ hs[n][i].theirs.owner = p /\ hs[n][i].theirs.run \in 1..runs[p]
    <3>1. hs[n][i] \in Contexts
      BY <1>2 DEF TypeOK, VarsOK
    <3>2. QED BY <1>2, <1>3, <1>5, <3>1 DEF Contexts, TableInv, ContextsGenuine
  <2>2. m.body = key
    BY <1>7 DEF ConfirmMatches
  <2>3. [peer |-> n, key |-> key, role |-> "initiator"] \in installed[p]
    <3>1. PICK role \in {"initiator", "responder"} :
                 [peer |-> n, key |-> key, role |-> role] \in installed[p]
      BY <1>1, <2>2 DEF Genuine, KeyFrames
    <3>2. CASE role = "initiator"
      BY <3>1, <3>2
    <3>3. CASE role = "responder"
      <4>1. [peer |-> p, key |-> key, role |-> "initiator"] \in installed[n]
        BY <1>2, <3>1, <3>3 DEF KeyInv, ResponderKeyIsInitiators
      <4>2. Eph(n, hs[n][i].run) \in key
        BY DEF LinkKey
      <4>3. QED BY <1>2, <1>5, <4>1, <4>2 DEF TableInv, ContextUnserved
    <3>4. QED BY <3>2, <3>3
  <2>4. /\ TableInv' /\ KeyInv'
        /\ \A q \in Node : installed[q] \subseteq installed'[q]
        /\ [peer |-> p, key |-> key, role |-> "responder"] \in installed'[n]
    <3> HIDE DEF n, p
    <3>1. key = LinkKey(Eph(n, hs[n][i].run), hs[n][i].theirs)
      OBVIOUS
    <3> HIDE DEF key
    <3>2. QED BY <1>2, <1>3, <1>4, <1>7, <2>1, <2>3, <3>1, InstallKeys
  <2>5. \A f \in rest : Genuine(f)'
    BY <1>6, <2>4, StillGenuine
  <2>6. ASSUME NEW f, f = Frame("CONFIRM", n, p, key)
        PROVE  Genuine(f)'
    <3>1. f.type = "CONFIRM" /\ f.src = n /\ f.dst = p /\ f.body = key
      BY <2>6 DEF Frame
    <3> HIDE DEF n, p, key
    <3>2. QED BY <1>2, <2>4, <3>1 DEF Genuine
  <2>7. QED BY <1>7, <2>4, <2>5, <2>6 DEF FramesGenuine
<1>8. CASE net' = rest /\ UNCHANGED <<link, routes, installed>>
  <2>1. TableInv'
    <3>1. UNCHANGED installed
      BY <1>8
    <3> HIDE DEF n, p
    <3>2. QED BY <1>2, <1>4, <1>5, <3>1, ClearTable
  <2>2. KeyInv'
    BY <1>6, <1>8, SameKeys
  <2>3. FramesGenuine'
    BY <1>4, <1>8, SameFrames
  <2>4. QED BY <2>1, <2>2, <2>3
<1>9. QED BY <1>3, <1>7, <1>8

\* Every handler of a received frame keeps the invariant.
LEMMA DeliverStep ==
  ASSUME HandshakeAssumption, IInv, NEW n \in Node, NEW p \in Node, Deliver(n, p)
  PROVE  TableInv' /\ KeyInv' /\ FramesGenuine'
<1> USE DEF IInv
<1>1. PICK m \in net : m.dst = n /\ m.src = p /\
          \E rest \in {net \ {m}, net} :
              \/ HandleHello(m, rest)
              \/ HandleReply(m, rest)
              \/ HandleConfirm(m, rest)
              \/ IgnoreKeyFrame(m, rest)
              \/ HandleWithdraw(m, rest)
              \/ HandleArpReply(m, rest)
  BY DEF Deliver
<1>2. PICK rest \in {net \ {m}, net} :
              \/ HandleHello(m, rest)
              \/ HandleReply(m, rest)
              \/ HandleConfirm(m, rest)
              \/ IgnoreKeyFrame(m, rest)
              \/ HandleWithdraw(m, rest)
              \/ HandleArpReply(m, rest)
  BY <1>1
<1>3. rest \in SUBSET net
  BY <1>2
<1>4. FrameOK(m) /\ Genuine(m) /\ runs \in [Node -> Nat]
  BY DEF TypeOK, VarsOK, FramesGenuine
<1>5. CASE HandleHello(m, rest)
  <2>1. /\ p # n
        /\ m.body \in Ephs /\ m.body.owner = p /\ m.body.run \in 1..runs[p]
    BY <1>1, <1>4, <1>5 DEF HandleHello, FrameOK, Genuine, KeyFrames
  <2>2. PICK i \in Slots :
               AllocHandshake(n, p, i) /\ StartRun(n, p, i, "REPLY_SENT", m.body)
    BY <1>1, <1>5 DEF HandleHello
  <2>3. UNCHANGED <<link, installed>>
        /\ net' = rest \cup {Frame("REPLY", n, p, Eph(n, runs[n] + 1))}
    BY <1>1, <1>5 DEF HandleHello
  <2>4. TableInv'
    BY <2>1, <2>2, <2>3, StartRunTable DEF KeyInv
  <2>5. runs' = [runs EXCEPT ![n] = @ + 1]
    BY <2>2 DEF StartRun
  <2>6. \A q \in Node : runs'[q] \in Nat /\ runs[q] <= runs'[q]
    BY <1>4, <2>5
  <2>7. KeyInv'
    BY <2>3, <2>6, SameKeys
  <2>8. ASSUME NEW f, f = Frame("REPLY", n, p, Eph(n, runs[n] + 1))
        PROVE  Genuine(f)'
    BY <1>4, <2>1, <2>5, <2>8 DEF Genuine, Frame, Eph
  <2>9. \A f \in rest : Genuine(f)'
    BY <1>3, <2>3, <2>6, StillGenuine
  <2>10. QED BY <2>3, <2>4, <2>7, <2>8, <2>9 DEF FramesGenuine
<1>6. CASE HandleReply(m, rest)
  BY <1>3, <1>6, ReplyStep
<1>7. CASE HandleConfirm(m, rest)
  BY <1>3, <1>7, ConfirmStep
<1>8. CASE IgnoreKeyFrame(m, rest) \/ HandleWithdraw(m, rest) \/ HandleArpReply(m, rest)
  <2>1. UNCHANGED <<hs, runs, installed>> /\ net' = rest
    BY <1>8 DEF IgnoreKeyFrame, HandleWithdraw, HandleArpReply
  <2>2. \A q, r \in Node : link'[q][r].st # "none" => link'[q][r] = link[q][r]
    <3>1. CASE link' = link
      BY <3>1
    <3>2. CASE link' = [link EXCEPT ![m.dst][m.body] = NoLink]
      BY <3>2 DEF NoLink, TypeOK, VarsOK
    <3>3. QED BY <1>8, <3>1, <3>2 DEF IgnoreKeyFrame, HandleWithdraw, HandleArpReply
  <2>3. \A q \in Node : runs'[q] \in Nat /\ runs[q] <= runs'[q]
    BY <1>4, <2>1
  <2>4. KeyInv'
    BY <2>1, <2>2, <2>3, SameKeys
  <2>5. QED BY <1>3, <2>1, <2>4, SameTable, SameFrames
<1>9. QED BY <1>2, <1>5, <1>6, <1>7, <1>8

\* Every step keeps the invariant.
LEMMA SafetyStep == HandshakeAssumption /\ IInv /\ [Next]_vars => IInv'
<1> SUFFICES ASSUME HandshakeAssumption, IInv, [Next]_vars
             PROVE  IInv'
  OBVIOUS
<1> USE DEF IInv
<1>1. TypeOK'
  BY TypeStep
<1>2. /\ runs \in [Node -> Nat] /\ hs \in [Node -> [Slots -> Contexts]]
      /\ link \in [Node -> [Node -> Links]]
  BY DEF TypeOK, VarsOK
<1>3. SUFFICES TableInv' /\ KeyInv' /\ FramesGenuine'
  BY <1>1
<1>4. UNCHANGED runs => \A q \in Node : runs'[q] \in Nat /\ runs[q] <= runs'[q]
  BY <1>2
<1>5. CASE UNCHANGED vars
  BY <1>4, <1>5, SameTable, SameKeys, SameFrames DEF vars
<1>6. ASSUME NEW n \in Node, NEW p \in Node, HandleJoinBeacon(n, p)
      PROVE  TableInv' /\ KeyInv' /\ FramesGenuine'
  <2>1. p \in Node \ {n}
    BY <1>6, HandshakeAssumption DEF HandleJoinBeacon, HandshakeAssumption
  <2>2. InitiateHandshake(n, p, net) /\ UNCHANGED <<link, installed>>
    BY <1>6 DEF HandleJoinBeacon
  <2>3. /\ TableInv' /\ FramesGenuine'
        /\ \A q \in Node : runs'[q] \in Nat /\ runs[q] <= runs'[q]
    BY <2>1, <2>2, InitiateStep
  <2>4. QED BY <2>2, <2>3, SameKeys
<1>7. ASSUME NEW n \in Node, NEW p \in Node, Deliver(n, p)
      PROVE  TableInv' /\ KeyInv' /\ FramesGenuine'
  BY <1>7, DeliverStep
<1>8. ASSUME NEW n \in Node, NEW p \in Node, HandleKeyNack(n, p)
      PROVE  TableInv' /\ KeyInv' /\ FramesGenuine'
  <2>1. p \in Node \ {n} /\ InitiateHandshake(n, p, net) /\ UNCHANGED installed
    BY <1>8 DEF HandleKeyNack
  <2>2. /\ TableInv' /\ FramesGenuine'
        /\ \A q \in Node : runs'[q] \in Nat /\ runs[q] <= runs'[q]
    BY <2>1, InitiateStep
  <2>3. \A q, r \in Node : link'[q][r].st # "none" =>
          link[q][r].st # "none" /\ link'[q][r].key = link[q][r].key
    BY <1>2, <1>8 DEF HandleKeyNack
  <2>4. QED BY <2>1, <2>2, <2>3, SameKeys
<1>9. ASSUME NEW n \in Node, NEW p \in Node, DropSilentPeer(n, p)
      PROVE  TableInv' /\ KeyInv' /\ FramesGenuine'
  <2>1. UNCHANGED <<hs, runs, installed>>
        /\ net' = net \cup Broadcast("ROUTE_WITHDRAW", n, p)
    BY <1>9 DEF DropSilentPeer
  <2>2. \A q, r \in Node : link'[q][r].st # "none" => link'[q][r] = link[q][r]
    BY <1>2, <1>9 DEF DropSilentPeer, NoLink
  <2>3. KeyInv'
    BY <1>4, <2>1, <2>2, SameKeys
  <2>4. \A m \in net' : m \in net \/ m.type \notin KeyFrames
    BY <2>1, BroadcastOutside
  <2>5. QED BY <2>1, <2>3, <2>4, SameTable, SameFrames
<1>10. ASSUME NEW n \in Node, NEW i \in Slots, ExpireContext(n, i)
       PROVE  TableInv' /\ KeyInv' /\ FramesGenuine'
  <2>1. Active(n, i) /\ hs' = [hs EXCEPT ![n][i] = FreeSlot(hs[n][i].peer)]
        /\ UNCHANGED <<link, runs, net, installed>>
    BY <1>10 DEF ExpireContext, TimedContexts
  <2>2. TableInv'
    BY <2>1, ClearTable
  <2>3. QED BY <1>4, <2>1, <2>2, SameKeys, SameFrames
<1>11. ASSUME NEW n \in Node, RotateEpoch(n)
       PROVE  TableInv' /\ KeyInv' /\ FramesGenuine'
  <2>1. UNCHANGED <<hs, runs, net, installed>>
    BY <1>11 DEF RotateEpoch
  <2>2. \A q, r \in Node : link'[q][r].st # "none" =>
          link[q][r].st # "none" /\ link'[q][r].key = link[q][r].key
    BY <1>2, <1>11 DEF RotateEpoch
  <2>3. QED BY <1>4, <2>1, <2>2, SameTable, SameKeys, SameFrames
<1>12. ASSUME NEW n \in Node, Restart(n)
       PROVE  TableInv' /\ KeyInv' /\ FramesGenuine'
  <2>1. UNCHANGED <<runs, net, installed>>
    BY <1>12 DEF Restart
  <2>2. \A q \in Node, i \in Slots :
          Active(q, i)' => q # n /\ Active(q, i)
    BY <1>2, <1>12 DEF Restart, FreeSlot, Active
  <2>3. \A q \in Node : q # n => hs'[q] = hs[q]
    BY <1>2, <1>12 DEF Restart
  <2>4. TableInv'
    BY <2>1, <2>2, <2>3 DEF TableInv, OneContextPerMac, ContextsGenuine,
                           DistinctRuns, ContextUnserved, Active
  <2>5. \A q, r \in Node : link'[q][r].st # "none" => link'[q][r] = link[q][r]
    BY <1>2, <1>12 DEF Restart, NoLink
  <2>6. QED BY <1>4, <2>1, <2>4, <2>5, SameKeys, SameFrames
<1>13. ASSUME NEW m \in net, Lose(m)
       PROVE  TableInv' /\ KeyInv' /\ FramesGenuine'
  <2>1. UNCHANGED <<hs, link, runs, installed>> /\ net' = net \ {m}
    BY <1>13 DEF Lose
  <2>2. QED BY <1>4, <2>1, SameTable, SameKeys, SameFrames
<1>14. QED
  BY <1>5, <1>6, <1>7, <1>8, <1>9, <1>10, <1>11, <1>12, <1>13 DEF Next

\* The invariant holds at every moment.
LEMMA Safety == Spec => []IInv
<1>1. Init => IInv
  BY DEF Init, IInv, TypeOK, VarsOK, FreeSlot, NoLink, Contexts, Links, TableInv,
         OneContextPerMac, ContextsGenuine, DistinctRuns, ContextUnserved, KeyInv,
         InstalledDrawn, LinkInstalled, ServedOnce, ResponderKeyIsInitiators,
         FramesGenuine, Active
<1>2. IInv /\ [Next]_vars => IInv'
  BY SafetyStep, HandshakeAssumption
<1>3. QED BY <1>1, <1>2, PTL DEF Spec

-----------------------------------------------------------------------------
(* Theorems.                                                                *)

\* _freeHandshake always ends the exchange it is called for.
THEOREM ContextTableSound == Spec => []OneContextPerMac
<1>1. IInv => OneContextPerMac
  BY DEF IInv, TableInv
<1>2. QED BY <1>1, Safety, PTL

\* No link ever holds a key of an exchange with somebody else.
THEOREM LinkKeyGenuine == Spec => []KeyIsOurs
<1>1. IInv => KeyIsOurs
  <2>1. SUFFICES ASSUME IInv, NEW n \in Node, NEW p \in Node, link[n][p].st # "none"
                 PROVE  Joins(n, p, link[n][p].key)
    BY DEF KeyIsOurs, Joins
  <2>2. PICK role \in {"initiator", "responder"} :
               [peer |-> p, key |-> link[n][p].key, role |-> role] \in installed[n]
    BY <2>1 DEF IInv, KeyInv, LinkInstalled
  <2>3. QED BY <2>1, <2>2 DEF IInv, KeyInv, InstalledDrawn
<1>2. QED BY <1>1, Safety, PTL

\* No key is ever installed twice, whatever frames are repeated, late or lost.
THEOREM NoKeyReinstalled == Spec => []EphemeralsServeOnce
<1>1. IInv => EphemeralsServeOnce
  <2>1. SUFFICES ASSUME IInv PROVE EphemeralsServeOnce
    OBVIOUS
  <2>2. \A n \in Node : runs[n] \in Nat
    BY <2>1 DEF IInv, TypeOK, VarsOK
  <2>3. QED BY <2>1, <2>2 DEF IInv, KeyInv, ServedOnce, TableInv, ContextUnserved,
                             EphemeralsServeOnce
<1>2. QED BY <1>1, Safety, PTL

\* A responder never installs a key its initiator has not installed for it.
THEOREM ResponderFollowsInitiator == Spec => []ResponderKeyIsInitiators
<1>1. IInv => ResponderKeyIsInitiators
  BY DEF IInv, KeyInv
<1>2. QED BY <1>1, Safety, PTL

\* Whenever the table holds a peer, a ROUTE_WITHDRAW for it will drop it, on
\* networks that fit in the route table.
THEOREM PeerKeepsRoute ==
  ASSUME RoomForRoutes
  PROVE  Spec => []PeerHasRoute
<1>1. Init => PeerHasRoute
  BY DEF Init, PeerHasRoute, Peers, NoLink
<1>2. TypeOK /\ PeerHasRoute /\ [Next]_vars => PeerHasRoute'
  <2> SUFFICES ASSUME TypeOK, PeerHasRoute, [Next]_vars
               PROVE  PeerHasRoute'
    OBVIOUS
  <2>1. /\ link \in [Node -> [Node -> Links]]
        /\ routes \in [Node -> SUBSET Node]
    BY DEF TypeOK, VarsOK
  <2>0. ASSUME NEW n \in Node, NEW p \in Node, AddRoute(n, p)
        PROVE  routes' = [routes EXCEPT ![n] = @ \cup {p}]
    BY <2>0, HandshakeAssumption, AddRouteKeeps DEF TypeOK
  <2>2. CASE \A q, r \in Node : /\ link'[q][r].st # "none" => link[q][r].st # "none"
                                /\ routes[q] \subseteq routes'[q]
    BY <2>2 DEF PeerHasRoute, Peers
  <2>3. ASSUME NEW n \in Node, NEW p \in Node, NEW key, NEW role,
               InstallKey(n, p, key, role), AddRoute(n, p)
        PROVE  PeerHasRoute'
    <3>1. \A q, r \in Node :
            link'[q][r].st # "none" => link[q][r].st # "none" \/ (q = n /\ r = p)
      BY <2>1, <2>3 DEF InstallKey, NoLink
    <3>2. \A q \in Node : routes[q] \subseteq routes'[q]
      BY <2>0, <2>1, <2>3
    <3>3. p \in routes'[n]
      BY <2>0, <2>1, <2>3
    <3>4. QED BY <3>1, <3>2, <3>3 DEF PeerHasRoute, Peers
  <2>4. ASSUME NEW n \in Node, NEW p \in Node, Deliver(n, p)
        PROVE  PeerHasRoute'
    <3>1. PICK m \in net : m.dst = n /\ m.src = p /\
              \E rest \in {net \ {m}, net} :
                  \/ HandleHello(m, rest)
                  \/ HandleReply(m, rest)
                  \/ HandleConfirm(m, rest)
                  \/ IgnoreKeyFrame(m, rest)
                  \/ HandleWithdraw(m, rest)
                  \/ HandleArpReply(m, rest)
      BY <2>4 DEF Deliver
    <3>2. PICK rest :
                  \/ HandleHello(m, rest)
                  \/ HandleReply(m, rest)
                  \/ HandleConfirm(m, rest)
                  \/ IgnoreKeyFrame(m, rest)
                  \/ HandleWithdraw(m, rest)
                  \/ HandleArpReply(m, rest)
      BY <3>1
    <3>3. CASE HandleHello(m, rest) \/ IgnoreKeyFrame(m, rest)
      BY <2>2, <3>3 DEF HandleHello, IgnoreKeyFrame
    <3>4. CASE HandleReply(m, rest)
      BY <2>3, <3>1, <3>4 DEF HandleReply
    <3>5. CASE HandleConfirm(m, rest)
      <4>1. CASE UNCHANGED <<link, routes>>
        BY <2>2, <4>1
      <4>2. CASE \E key : InstallKey(n, p, key, "responder") /\ AddRoute(n, p)
        BY <2>3, <4>2
      <4>3. QED BY <3>1, <3>5, <4>1, <4>2 DEF HandleConfirm
    <3>6. CASE HandleWithdraw(m, rest)
      <4>1. CASE UNCHANGED <<routes, link>>
        BY <2>2, <4>1
      <4>2. CASE /\ routes' = [routes EXCEPT ![n] = @ \ {m.body}]
                 /\ link' = [link EXCEPT ![n][m.body] = NoLink]
        BY <2>1, <4>2 DEF PeerHasRoute, Peers, NoLink
      <4>3. QED BY <3>1, <3>6, <4>1, <4>2 DEF HandleWithdraw
    <3>7. CASE HandleArpReply(m, rest)
      <4>1. m.body \in Node
        BY <3>1, <3>7 DEF HandleArpReply, TypeOK, FrameOK
      <4>2. routes' = [routes EXCEPT ![n] = @ \cup {m.body}]
        BY <2>0, <3>1, <3>7, <4>1 DEF HandleArpReply
      <4>3. QED BY <2>1, <2>2, <3>7, <4>2 DEF HandleArpReply
    <3>8. QED BY <3>2, <3>3, <3>4, <3>5, <3>6, <3>7
  <2>5. ASSUME NEW n \in Node, NEW p \in Node, DropSilentPeer(n, p)
        PROVE  PeerHasRoute'
    BY <2>1, <2>5 DEF DropSilentPeer, PeerHasRoute, Peers, NoLink
  <2>6. ASSUME NEW n \in Node, NEW p \in Node, HandleKeyNack(n, p)
        PROVE  PeerHasRoute'
    BY <2>1, <2>2, <2>6 DEF HandleKeyNack
  <2>7. ASSUME NEW n \in Node, RotateEpoch(n) \/ Restart(n)
        PROVE  PeerHasRoute'
    <3>1. CASE RotateEpoch(n)
      BY <2>1, <2>2, <3>1 DEF RotateEpoch
    <3>2. CASE Restart(n)
      BY <2>1, <3>2 DEF Restart, PeerHasRoute, Peers, NoLink
    <3>3. QED BY <2>7, <3>1, <3>2
  <2>8. CASE UNCHANGED <<link, routes>>
    BY <2>2, <2>8
  <2>9. QED BY <2>4, <2>5, <2>6, <2>7, <2>8
            DEF Next, vars, HandleJoinBeacon, ExpireContext, Lose
<1>3. QED BY <1>1, <1>2, TypeCorrect, PTL DEF Spec

-----------------------------------------------------------------------------
(* Prompt frames, between two nodes.  No timer fires while a key frame is in *)
(* the air, so there is one such frame at most, and whoever sent a CONFIRM   *)
(* still uses its key when the CONFIRM arrives.  A third node could withdraw *)
(* or evict the sender meanwhile, a second copy of a frame, a reset, a       *)
(* rotation or a KEY_NACK could undo the sender's key.                       *)

TwoNodes == \A x, y, z \in Node : x = y \/ y = z \/ x = z
Calm == Prompt /\ FaultKinds \subseteq {"loss", "silence"} /\ TwoNodes

KeyFrame(m) == m.type \in KeyFrames

NoEcho == \A m \in net : m.src # m.dst /\ (m.type = "ROUTE_WITHDRAW" => m.body = m.dst)
OneKeyFrame == \A l, m \in net : KeyFrame(l) /\ KeyFrame(m) => l = m
ConfirmHeld ==
    \A m \in net : m.type = "CONFIRM" => link[m.src][m.dst] = [st |-> "est", key |-> m.body]
NotOwnPeer == \A n \in Node : link[n][n].st = "none"

PromptInv == NoEcho /\ OneKeyFrame /\ ConfirmHeld /\ NotOwnPeer

\* Settled nodes: no key frame is in the air at all.
LEMMA NothingInFlight ==
  ASSUME Calm, TypeOK, PromptInv, NEW n \in Node, NEW p \in Node, n # p, Settled(n, p)
  PROVE  \A m \in net : ~KeyFrame(m)
<1> SUFFICES ASSUME NEW m \in net, KeyFrame(m)
             PROVE  FALSE
  OBVIOUS
<1>1. m.src \in Node /\ m.dst \in Node /\ m.src # m.dst
  BY DEF TypeOK, FrameOK, PromptInv, NoEcho
<1>2. {m.src, m.dst} = {n, p}
  BY <1>1 DEF Calm, TwoNodes
<1>3. InFlight(n, p)
  BY <1>2 DEF InFlight, KeyFrame
<1>4. QED BY <1>3 DEF Settled, Calm

\* Each frame is delivered once.
LEMMA DeliveredOnce ==
  ASSUME Calm, TypeOK, PromptInv, NEW n \in Node, NEW p \in Node, Deliver(n, p)
  PROVE  n # p /\ \E m \in net :
            /\ m.dst = n /\ m.src = p
            /\ \/ HandleHello(m, net \ {m})
               \/ HandleReply(m, net \ {m})
               \/ HandleConfirm(m, net \ {m})
               \/ IgnoreKeyFrame(m, net \ {m})
               \/ HandleWithdraw(m, net \ {m})
               \/ HandleArpReply(m, net \ {m})
<1>1. ~CanFault("dup")
  BY DEF CanFault, Calm
<1>2. PICK m \in net : /\ m.dst = n /\ m.src = p
                       /\ \E rest \in {net \ {m}, net} :
                            /\ rest = net => CanFault("dup")
                            /\ \/ HandleHello(m, rest)
                               \/ HandleReply(m, rest)
                               \/ HandleConfirm(m, rest)
                               \/ IgnoreKeyFrame(m, rest)
                               \/ HandleWithdraw(m, rest)
                               \/ HandleArpReply(m, rest)
  BY Zenon DEF Deliver
<1>3. n # p
  BY <1>2 DEF PromptInv, NoEcho
<1>4. QED BY <1>1, <1>2, <1>3

\* Of two nodes neither has a peer to evict for the other.
LEMMA InstalledForTwo ==
  ASSUME Calm, TypeOK, PromptInv, HandshakeAssumption, NEW n \in Node, NEW p \in Node, n # p,
         NEW key, NEW role, InstallKey(n, p, key, role)
  PROVE  /\ installed' = [installed EXCEPT ![n] = @ \cup {[peer |-> p, key |-> key, role |-> role]}]
         /\ link'[n][p] = [st |-> "est", key |-> key]
         /\ link'[p] = link[p] /\ link'[n][n] = link[n][n]
<1>1. link \in [Node -> [Node -> Links]]
  BY DEF TypeOK, VarsOK
<1>2. ~\E v \in Peers(n) : p \notin Peers(n)
  <2> SUFFICES ASSUME NEW v \in Peers(n), p \notin Peers(n)
               PROVE  FALSE
    OBVIOUS
  <2>1. v \in Node /\ v # p /\ v # n
    BY DEF Peers, PromptInv, NotOwnPeer
  <2>2. QED BY <2>1 DEF Calm, TwoNodes
<1>3. link' = [link EXCEPT ![n][p] = [st |-> "est", key |-> key]]
  BY <1>2 DEF InstallKey
<1>4. QED BY <1>1, <1>3 DEF InstallKey

\* Frames are lost or taken, and no link changes.
LEMMA Quieter ==
  ASSUME PromptInv, net' \subseteq net, UNCHANGED link
  PROVE  PromptInv'
BY DEF PromptInv, NoEcho, OneKeyFrame, ConfirmHeld, NotOwnPeer, KeyFrame

\* One key frame joins an air without any.
Joined(rest, f, B) ==
    /\ rest \subseteq net /\ \A m \in rest : ~KeyFrame(m)
    /\ KeyFrame(f) /\ f.src # f.dst
    /\ f.type = "CONFIRM" => link'[f.src][f.dst] = [st |-> "est", key |-> f.body]
    /\ \A m \in B : m.type = "ARP_REPLY" /\ m.src # m.dst
    /\ net' \subseteq (rest \cup {f} \cup B) /\ \A n \in Node : link'[n][n].st = "none"

LEMMA OneMore ==
  ASSUME PromptInv, NEW rest, NEW f, NEW B, Joined(rest, f, B)
  PROVE  PromptInv'
<1>0. /\ rest \subseteq net /\ \A m \in rest : ~KeyFrame(m)
      /\ KeyFrame(f) /\ f.src # f.dst
      /\ f.type = "CONFIRM" => link'[f.src][f.dst] = [st |-> "est", key |-> f.body]
      /\ \A m \in B : m.type = "ARP_REPLY" /\ m.src # m.dst
      /\ net' \subseteq (rest \cup {f} \cup B) /\ \A n \in Node : link'[n][n].st = "none"
  BY DEF Joined
<1>1. \A m \in net' : m \in rest \/ m = f \/ m \in B
  BY <1>0
<1>2. \A m \in net' : KeyFrame(m) => m = f
  BY <1>0, <1>1 DEF KeyFrame, KeyFrames
<1>3. NoEcho'
  BY <1>0, <1>1 DEF NoEcho, PromptInv, KeyFrame, KeyFrames
<1>4. OneKeyFrame'
  BY <1>2 DEF OneKeyFrame
<1>5. ConfirmHeld'
  BY <1>0, <1>2 DEF ConfirmHeld, KeyFrame, KeyFrames
<1>6. QED BY <1>0, <1>3, <1>4, <1>5 DEF PromptInv, NotOwnPeer

\* A handler of a frame, which was the only key frame if it was one.  Where a
\* responder installs a key, its initiator uses it.
LEMMA PromptDeliver ==
  ASSUME HandshakeAssumption, Calm, TypeOK, PromptInv, NEW n \in Node, NEW p \in Node, Deliver(n, p)
  PROVE  /\ PromptInv'
         /\ \A x \in Node : \A r \in installed'[x] \ installed[x] :
                r.role = "responder" => link'[r.peer][x] = [st |-> "est", key |-> r.key]
<1>0. link \in [Node -> [Node -> Links]] /\ installed \in [Node -> SUBSET
          [peer : Node, key : SUBSET Ephs, role : {"initiator", "responder"}]]
  BY DEF TypeOK, VarsOK
<1>1. PICK m \in net :
            /\ m.dst = n /\ m.src = p
            /\ \/ HandleHello(m, net \ {m})
               \/ HandleReply(m, net \ {m})
               \/ HandleConfirm(m, net \ {m})
               \/ IgnoreKeyFrame(m, net \ {m})
               \/ HandleWithdraw(m, net \ {m})
               \/ HandleArpReply(m, net \ {m})
  BY DeliveredOnce
<1> DEFINE rest == net \ {m}
<1>2. n # p
  BY DeliveredOnce
<1>3. KeyFrame(m) => \A f \in rest : ~KeyFrame(f)
  BY DEF PromptInv, OneKeyFrame
<1>4. rest \in SUBSET net /\ \A x \in Node : link[x][x].st = "none"
  BY DEF PromptInv, NotOwnPeer
<1> HIDE DEF rest
<1>5. CASE HandleHello(m, rest)
  <2> DEFINE f == Frame("REPLY", n, p, Eph(n, runs[n] + 1))
  <2>1. KeyFrame(m) /\ UNCHANGED <<link, installed>> /\ net' = rest \cup {f}
    BY <1>1, <1>5 DEF HandleHello, KeyFrame, KeyFrames
  <2>2. KeyFrame(f) /\ f.src # f.dst /\ f.type # "CONFIRM"
    BY <1>2 DEF Frame, KeyFrame, KeyFrames
  <2> HIDE DEF f
  <2>3. PromptInv'
    <3> DEFINE B == {}
    <3>1. \A b \in B : b.type = "ARP_REPLY" /\ b.src # b.dst
      OBVIOUS
    <3>2. net' \subseteq (rest \cup {f} \cup B) /\ \A x \in Node : link'[x][x].st = "none"
      BY <1>4, <2>1
    <3> HIDE DEF B
    <3>3. rest \in SUBSET net /\ (\A g \in rest : ~KeyFrame(g)) /\ PromptInv
      BY <1>3, <1>4, <2>1
    <3>4. f.type = "CONFIRM" => link'[f.src][f.dst] = [st |-> "est", key |-> f.body]
      BY <2>2
    <3>5. Joined(rest, f, B)
      BY <2>2, <3>1, <3>2, <3>3, <3>4 DEF Joined
    <3>6. QED BY <3>3, <3>5, OneMore
  <2>4. QED BY <2>1, <2>3
<1>6. CASE HandleReply(m, rest)
  <2>1. PICK key : /\ InstallKey(n, p, key, "initiator")
                   /\ net' = rest \cup {Frame("CONFIRM", n, p, key)} \cup Broadcast("ARP_REPLY", n, n)
    BY <1>1, <1>6 DEF HandleReply
  <2> DEFINE f == Frame("CONFIRM", n, p, key)
             B == Broadcast("ARP_REPLY", n, n)
  <2>2. KeyFrame(m)
    BY <1>6 DEF HandleReply, KeyFrame, KeyFrames
  <2>3. /\ installed' = [installed EXCEPT ![n] = @ \cup {[peer |-> p, key |-> key, role |-> "initiator"]}]
        /\ link'[n][p] = [st |-> "est", key |-> key]
        /\ link'[p] = link[p] /\ link'[n][n] = link[n][n]
    BY <1>2, <2>1, InstalledForTwo
  <2>4. /\ KeyFrame(f) /\ f.src # f.dst
        /\ link'[f.src][f.dst] = [st |-> "est", key |-> f.body]
    BY <1>2, <2>3 DEF Frame, KeyFrame, KeyFrames
  <2>5. \A b \in B : b.type = "ARP_REPLY" /\ b.src # b.dst
    <3>1. ASSUME NEW b \in B
          PROVE  b.type = "ARP_REPLY" /\ b.src # b.dst
      <4>1. PICK q \in Node : b = Frame("ARP_REPLY", n, q, n) /\ <<q, n>> \in Hears
        BY DEF Broadcast
      <4>2. q # n
        BY <4>1 DEF HandshakeAssumption
      <4>3. QED BY <4>1, <4>2 DEF Frame
    <3>2. QED BY <3>1
  <2>6. \A x \in Node : link'[x][x].st = "none"
    <3>1. \A x \in Node : x = n \/ x = p
      BY <1>2 DEF Calm, TwoNodes
    <3>2. QED BY <1>4, <2>3, <3>1
  <2>7. net' \subseteq (rest \cup {f} \cup B)
    BY <2>1
  <2> HIDE DEF f, B
  <2>8. PromptInv'
    <3>1. rest \in SUBSET net /\ (\A g \in rest : ~KeyFrame(g)) /\ PromptInv
      BY <1>3, <1>4, <2>2
    <3>2. Joined(rest, f, B)
      BY <2>4, <2>5, <2>6, <2>7, <3>1 DEF Joined
    <3>3. QED BY <3>1, <3>2, OneMore
  <2>9. ASSUME NEW x \in Node, NEW r \in installed'[x] \ installed[x]
        PROVE  r.role # "responder"
    BY <1>0, <2>3, <2>9
  <2>10. QED BY <2>8, <2>9
<1>7. CASE HandleConfirm(m, rest)
  <2>1. m.type = "CONFIRM" /\ KeyFrame(m)
    BY <1>7 DEF HandleConfirm, KeyFrame, KeyFrames
  <2>2. CASE net' = rest /\ UNCHANGED <<link, routes, installed>>
    BY <1>4, <2>2, Quieter
  <2>3. CASE \E key : /\ m.body = key /\ InstallKey(n, p, key, "responder")
                      /\ net' = rest \cup {Frame("CONFIRM", n, p, key)}
    <3>1. PICK key : /\ m.body = key /\ InstallKey(n, p, key, "responder")
                     /\ net' = rest \cup {Frame("CONFIRM", n, p, key)}
      BY <2>3
    <3> DEFINE f == Frame("CONFIRM", n, p, key)
               B == {}
    <3>2. /\ installed' = [installed EXCEPT ![n] = @ \cup {[peer |-> p, key |-> key, role |-> "responder"]}]
          /\ link'[n][p] = [st |-> "est", key |-> key]
          /\ link'[p] = link[p] /\ link'[n][n] = link[n][n]
      BY <1>2, <3>1, InstalledForTwo
    <3>3. /\ KeyFrame(f) /\ f.src # f.dst
          /\ link'[f.src][f.dst] = [st |-> "est", key |-> f.body]
      BY <1>2, <3>2 DEF Frame, KeyFrame, KeyFrames
    <3>4. \A x \in Node : link'[x][x].st = "none"
      <4>1. \A x \in Node : x = n \/ x = p
        BY <1>2 DEF Calm, TwoNodes
      <4>2. QED BY <1>4, <3>2, <4>1
    <3>5. net' \subseteq (rest \cup {f} \cup B) /\ \A b \in B : b.type = "ARP_REPLY" /\ b.src # b.dst
      BY <3>1
    <3> HIDE DEF f, B
    <3>6. PromptInv'
      <4>1. rest \in SUBSET net /\ (\A g \in rest : ~KeyFrame(g)) /\ PromptInv
        BY <1>3, <1>4, <2>1
      <4>2. Joined(rest, f, B)
        BY <3>3, <3>4, <3>5, <4>1 DEF Joined
      <4>3. QED BY <4>1, <4>2, OneMore
    <3>7. link'[p][n] = [st |-> "est", key |-> key]
      BY <1>1, <2>1, <3>1, <3>2 DEF PromptInv, ConfirmHeld
    <3>8. ASSUME NEW x \in Node, NEW r \in installed'[x] \ installed[x]
          PROVE  link'[r.peer][x] = [st |-> "est", key |-> r.key]
      <4>1. x = n /\ r = [peer |-> p, key |-> key, role |-> "responder"]
        BY <1>0, <3>2, <3>8
      <4>2. QED BY <3>7, <4>1
    <3>9. QED BY <3>6, <3>8
  <2>4. QED BY <1>1, <1>7, <2>2, <2>3 DEF HandleConfirm, ConfirmMatches
<1>8. CASE IgnoreKeyFrame(m, rest) \/ HandleArpReply(m, rest)
  <2>1. net' = rest /\ UNCHANGED <<link, installed>>
    BY <1>8 DEF IgnoreKeyFrame, HandleArpReply
  <2>2. QED BY <1>4, <2>1, Quieter
<1>9. CASE HandleWithdraw(m, rest)
  <2>1. m.body = m.dst
    BY <1>9 DEF HandleWithdraw, PromptInv, NoEcho
  <2>2. net' = rest /\ UNCHANGED <<link, installed>>
    BY <1>9, <2>1 DEF HandleWithdraw
  <2>3. QED BY <1>4, <2>2, Quieter
<1>10. QED BY <1>1, <1>5, <1>6, <1>7, <1>8, <1>9 DEF rest

LEMMA PromptStep ==
  ASSUME HandshakeAssumption, Calm, TypeOK, PromptInv, [Next]_vars
  PROVE  /\ PromptInv'
         /\ \A x \in Node : \A r \in installed'[x] \ installed[x] :
                r.role = "responder" => link'[r.peer][x] = [st |-> "est", key |-> r.key]
<1>0. link \in [Node -> [Node -> Links]]
  BY DEF TypeOK, VarsOK
<1>1. ~Fault("nack") /\ ~Fault("rotate") /\ ~Fault("restart")
  BY DEF Calm, Fault, CanFault
<1>2. ASSUME NEW n \in Node, NEW p \in Node, HandleJoinBeacon(n, p)
      PROVE  PromptInv' /\ UNCHANGED installed
  <2> DEFINE f == Frame("HELLO", n, p, Eph(n, runs[n] + 1))
             B == {}
  <2>1. /\ <<n, p>> \in Hears /\ Settled(n, p) /\ UNCHANGED <<link, installed>>
        /\ net' = net \/ net' = net \cup {f}
    BY <1>2 DEF HandleJoinBeacon, InitiateHandshake
  <2>2. n # p
    BY <2>1 DEF HandshakeAssumption
  <2>3. \A m \in net : ~KeyFrame(m)
    BY <2>1, <2>2, NothingInFlight
  <2>4. KeyFrame(f) /\ f.src # f.dst /\ f.type # "CONFIRM"
    BY <2>2 DEF Frame, KeyFrame, KeyFrames
  <2> HIDE DEF f
  <2>5. /\ net' \subseteq (net \cup {f} \cup B) /\ \A b \in B : b.type = "ARP_REPLY" /\ b.src # b.dst
        /\ \A x \in Node : link'[x][x].st = "none"
    BY <2>1 DEF PromptInv, NotOwnPeer
  <2> HIDE DEF B
  <2>6. PromptInv'
    <3>1. net \in SUBSET net /\ PromptInv
      OBVIOUS
    <3>2. f.type = "CONFIRM" => link'[f.src][f.dst] = [st |-> "est", key |-> f.body]
      BY <2>4
    <3>3. Joined(net, f, B)
      BY <2>3, <2>4, <2>5, <3>1, <3>2 DEF Joined
    <3>4. QED BY <3>1, <3>3, OneMore
  <2>7. QED BY <2>1, <2>6
<1>3. ASSUME NEW n \in Node, NEW p \in Node, DropSilentPeer(n, p)
      PROVE  PromptInv' /\ UNCHANGED installed
  <2> DEFINE B == Broadcast("ROUTE_WITHDRAW", n, p)
  <2>1. /\ p \in Peers(n) /\ Settled(n, p) /\ link' = [link EXCEPT ![n][p] = NoLink]
        /\ net' = net \cup B /\ UNCHANGED installed
    BY <1>3 DEF DropSilentPeer
  <2>2. n # p
    BY <2>1 DEF Peers, PromptInv, NotOwnPeer
  <2>3. \A m \in net : ~KeyFrame(m)
    BY <2>1, <2>2, NothingInFlight
  <2>4. ASSUME NEW b \in B
        PROVE  b.type = "ROUTE_WITHDRAW" /\ b.src # b.dst /\ b.body = b.dst
    <3>1. PICK q \in Node : b = Frame("ROUTE_WITHDRAW", n, q, p) /\ <<q, n>> \in Hears
      BY DEF Broadcast
    <3>2. q # n
      BY <3>1 DEF HandshakeAssumption
    <3>3. q = p
      BY <2>2, <3>2 DEF Calm, TwoNodes
    <3>4. QED BY <3>1, <3>2, <3>3 DEF Frame
  <2> HIDE DEF B
  <2>5. \A m \in net' : ~KeyFrame(m) /\ m.src # m.dst /\ (m.type = "ROUTE_WITHDRAW" => m.body = m.dst)
    BY <2>1, <2>3, <2>4 DEF KeyFrame, KeyFrames, PromptInv, NoEcho
  <2>6. \A x \in Node : link'[x][x].st = "none"
    BY <1>0, <2>1 DEF NoLink, PromptInv, NotOwnPeer
  <2>7. QED BY <2>1, <2>5, <2>6 DEF PromptInv, NoEcho, OneKeyFrame, ConfirmHeld, NotOwnPeer, KeyFrame, KeyFrames
<1>4. ASSUME NEW n \in Node, NEW i \in Slots, ExpireContext(n, i)
      PROVE  PromptInv' /\ UNCHANGED installed
  BY <1>4, Quieter DEF ExpireContext
<1>5. ASSUME NEW m \in net, Lose(m)
      PROVE  PromptInv' /\ UNCHANGED installed
  BY <1>5, Quieter DEF Lose
<1>6. CASE UNCHANGED vars
  BY <1>6, Quieter DEF vars
<1>7. ASSUME NEW n \in Node, NEW p \in Node
      PROVE  ~HandleKeyNack(n, p) /\ ~RotateEpoch(n) /\ ~Restart(n)
  BY <1>1 DEF HandleKeyNack, RotateEpoch, Restart
<1>8. QED BY <1>2, <1>3, <1>4, <1>5, <1>6, <1>7, PromptDeliver DEF Next

\* Between two nodes whose frames are prompt, lost or not, the initiator is
\* using the key a responder installs, at that moment
\* (MeshNetwork.cpp:592-643, and the timeouts at 943-1010).
THEOREM ResponderAgrees ==
  ASSUME Calm
  PROVE  Spec => ResponderAgreesAtOnce
<1>1. Init => PromptInv
  BY DEF Init, PromptInv, NoEcho, OneKeyFrame, ConfirmHeld, NotOwnPeer, NoLink
<1>2. TypeOK /\ PromptInv /\ [Next]_vars => PromptInv'
  BY PromptStep, HandshakeAssumption
<1>3. TypeOK /\ PromptInv /\ [Next]_vars =>
        [\A n \in Node : \A r \in installed'[n] \ installed[n] :
           r.role = "responder" => link'[r.peer][n] = [st |-> "est", key |-> r.key]]_vars
  BY PromptStep, HandshakeAssumption
<1>4. QED BY <1>1, <1>2, <1>3, TypeCorrect, PTL DEF Spec, ResponderAgreesAtOnce
=============================================================================
