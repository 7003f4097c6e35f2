# EnigmaNG in TLA+

EnigmaNG is a mesh network for ESP32 and ESP8266 over ESP-NOW: nodes discover
each other by beacons, agree on link keys, exchange distance-vector routes, carry
IP packets between their lwIP stacks, and let ESP8266 nodes reach an MQTT broker
through an ESP32. This directory models its protocol state, model-checks it with
TLC and proves its safety properties with TLAPS. Source
references are to `src/` of the repository; `PROJECT.json` maps every definition
to its lines.

## The system

| Component | State | Operations | Correct when |
|---|---|---|---|
| MeshNetwork, link establishment | four handshake contexts, the known gateway, the default route | beacon, HELLO, REPLY, CONFIRM, ROUTE_WITHDRAW, ARP and KEY_NACK handlers; both loops of `_checkPeerTimeouts`; `_rotateEpoch` | no context, key or ephemeral serves two exchanges; neighbours join and stay joined |
| PeerManager | hash table of 16 peers | add, find, remove with rehashing, LRU eviction, access by index | its callers see a set of peers |
| Router | 64 routes, Seen-Frame cache, gateway list | advertise, learn, withdraw, expire, evict; see a frame | loop-free in a stable mesh; converges after a change; a broadcast is handled once |
| MeshNetwork, data path | none of its own: the tables of Router | lwIP's output, `sendData`, relaying | a packet comes nearer with each hop and leaves the mesh |
| Fragmentation | reassembly sessions, a counter of fragment ids | fragment, reassemble, update | only whole messages are delivered; sessions do not leak |
| ProxyHandler | 8 client slots with topics, the MQTT session | PROXY frames; events of the MQTT client | slots are not mixed up; the broker has every client's topics; a message reaches all who hold a subscription |
| MeshNode8266 | scan/discover/handshake/connected, offers, keys, topics | `loop`, the receive callback, subscribe, unsubscribe | it connects with a key its proxy has, and the proxy knows its topics |
| DownlinkManager | ring buffer per sleeping child | buffer, drain | FIFO of the newest messages |
| BatteryNode | parents, interval, mesh time and epoch in RTC memory, and their copy in NVS | begin, add a parent, set the time, deep sleep | it goes on where it stopped |
| ServiceDiscovery | two arrays of services | register, unregister, serialize, reply, expire, find | a service that is found is the one announced last (not wired to the frames yet) |
| Onboarding, PhysicalLayer, LinkLayer, Crypto, Gateway, NetifDriver, WebUI | little or none | PSK in NVS, radio, encoding, primitives, NAT, glue to lwIP, status pages | |

**Interaction.** `MeshNetwork` owns the other ESP32 classes and calls them. ESP-NOW
calls `_handleFrame` in the WiFi task; `loop()` runs the timers in the Arduino task;
lwIP calls `_netifTxCallback` in its own task; the MQTT client calls `ProxyHandler`
in yet another. No lock is taken anywhere
(`openspec/changes/mesh-freertos-tasks/design.md` plans some). Nodes interact by
frames only: beacons, ROUTE_ADV and ROUTE_WITHDRAW are broadcast, the rest is
unicast. ESP-NOW acknowledges a unicast frame and may send it again, so frames are
lost, repeated and late. A link that works in one direction only is ordinary.

**What is hard.** Exchanges that cross, a context that times out or is evicted while
its answer is in the air, handlers that run between two iterations of a loop over
the same table, deletion inside an open-addressed table, stale routes that
neighbours teach each other, packets that nothing keeps from going round but those
routes, fragments left over from earlier messages, two tasks over one table of
clients, sequence numbers that start again, three copies of a battery node's state,
and two programs (ESP32, ESP8266) that have to speak one protocol. `PROJECT.json` lists each hazard at its line with the properties about it,
or with the reason why none is.

## Modules

| Module | Models | Checked by |
|---|---|---|
| `Handshake` | link establishment among ESP32 nodes | `MCHandshake`: hs_faults, hs_live |
| `PeerTable` | PeerManager's hash table and the sweep over it | `MCPeerTable`: pt_set |
| `PeerSet` | what PeerManager promises: a bounded set with LRU eviction | as `PeerTable!Abstract` in pt_set |
| `Routing` | Router in a network of nodes | `MCRouting`: rt_net |
| `DataPath` | packets over the tables of `Routing`, which it extends | `MCDataPath`: rt_path |
| `SeenFrames` | Router's Seen-Frame cache at one node | `MCSeenFrames`: sf_cache |
| `Fragmentation` | senders, link and receiver of fragments | `MCFragmentation`: fr_link |
| `ProxyHandler` | proxy slots, MQTT session, broker | `MCProxyHandler`: px_subs |
| `MeshNode8266` | the ESP8266 client among its proxies | `MCMeshNode8266`: c8_client, c8_esp32 |
| `Downlink` | DownlinkManager's ring buffers | with `BatteryNode` |
| `DownlinkQueue` | what DownlinkManager promises: queues of the newest messages | as `Downlink!Abstract` in bn_cycle |
| `BatteryNode` | a battery node's state over sleep and reset; extends `Downlink` | `MCBatteryNode`: bn_cycle |
| `ServiceDiscovery` | services of several nodes, the table of one | `MCServiceDiscovery`: sd_table |
| `HandshakeProofs` | theorems about `Handshake` | TLAPS |
| `RouterProofs` | theorems about `Routing`, `DataPath` and `SeenFrames` | TLAPS |
| `TableProofs` | theorems about `PeerTable`, that it implements `PeerSet`, and about `ServiceDiscovery` | TLAPS |
| `FragmentationProofs`, `ProxyHandlerProofs`, `MeshNode8266Proofs` | theorems about the module they are named after | TLAPS |
| `BatteryNodeProofs` | theorems about `BatteryNode`, and that `Downlink` implements `DownlinkQueue` | TLAPS |
| `Induction` | induction and recursion over 0..N, for the proofs about tables | TLAPS |

The modules meet at narrow places. `Handshake` uses the peer table by what `PeerSet`
promises, with any peer as the victim of an eviction; `PeerTable` shows the promise
kept. The names of `SeenFrames` and `ServiceDiscovery` begin with their own prefix
(`SeenSpec`, `ServiceSpec`), so that their proofs stand beside those of another table.
`Routing` starts where `Handshake` ends, with neighbours that can join, and
`DataPath` composes its packets with every step of `Routing`: each node relays by the
table it has when the packet comes. `BatteryNode` holds the epoch of `MeshNetwork` and
both begin functions, in any order; a node is a parent or a battery node for good, and
as the frames between the two are a TODO in the code, the parent's buffers in
`Downlink` and the child share nothing.
`MeshNode8266` contains the two handlers of an ESP32 it talks to.

### State and actions

*Handshake.* `hs[n]` is `_handshakes`; a slot that was freed keeps its MAC, as in the
code. `link[n][p]` is the peer entry of p (`stale` when `keyEstablished` is false),
`routes[n]` the direct routes, of which `MaxRoutes` have room, `knownGw` and `defRoute` the gateway's MAC and the
default route. An ephemeral and its nonce are drawn together and are one value
`Eph(n, k)`; a link key is the set of the two ephemerals, which is what the
commutative ECDH and the sorted MACs make of it. `startedAt` is written where an
ephemeral is drawn, so draws order the contexts. A receive handler is one action,
with everything it calls; an iteration of a loop of `_checkPeerTimeouts` is one
action, so that handlers run in between. `ExpireContext` has no lower bound on the
age: `now` is sampled before the loops (`MeshNetwork.cpp:976`) and an unsigned
difference wraps for a context started since. `installed` is a history variable.
KEY_NACK is handled by the code and sent by none of it; it is an input.

*PeerTable.* `table` is `_peers`; `Distance`, `Probe`, `Free` and `Rehash` are the
probing and the loop of `removePeer`, followed for `MaxRehash` positions. A public operation of PeerManager is one
action; the sweep is one per iteration. `Word` gives millis() its wrap. `HearBeacon`
stores what a battery node's beacon says of its sleep, `Limit` is the patience
`_checkPeerTimeouts` has with it.

*Routing.* `Tick` is one ROUTE_ADV interval, in which every node has advertised and
acted on its timeouts, in any order. An advertisement reaches all neighbours but
those who lose it or get it late (`wire`). `Linked` neighbours are heard in every
interval, and their beacons refresh the direct route (`MeshNetwork.cpp:464-470`).
A destination is a MAC: two nodes whose MACs end in the same two bytes share an IP
and are left out.

*DataPath.* `pkt` is the one frame in the air, with the node that sent it, the next hop
and the end-to-end destination of the header. `NetifTx` is lwIP's output with its
fallback to the gateway, which only the nodes that met one of its beacons know
(`HeardGateway`), `SendData` the application's with its fallback to a direct
send; a destination `Outside` the mesh has no MAC and goes to the gateway. A packet of
more than one frame is `large`: the next node puts it together and cannot relay it.
`hops` is a ghost: how far the transmitter believed the destination to be.

*SeenFrames.* `seenCache` and `idx` are the ring; an entry has an age instead of a
timestamp. `isFrameSeen` gives up the expired entries it meets before a live one
(`Stale`). A neighbour's counter goes on with its unicast frames and starts again at
a reset or deep sleep. `window` is a ghost: the broadcasts handled, by which
`DropsTheRecent` says what the ring has to do.

*Fragmentation.* The increment of the counter is a load and a store; `Task` is the set
of tasks of a sender. A fragment carries the identity of its message as a ghost, which
only the properties look at. `TotalFrags` cuts the number of fragments to a byte before
it is compared with the limit. `Restart` resets a sender's counter and tasks; under
`SlowStart` it does so when the receiver has given up what was being sent.

*ProxyHandler.* A frame handler that changes the table and then tells the broker is two
actions (`rx` is its place), the loop that subscribes again one per client (`resub`),
because they run in different tasks. So is filling a slot (`ClearSlot`: it is
`connected` before its old topics are gone), and the loop that forwards a message is
two actions per client, the comparison and the send (`fwd`). `Covers` says what a
subscription matches, a `#` included. `owed` is a ghost. The broker forgets a session
that ends.

*MeshNode8266.* The ESP8266 runs callback and loop on one core without preemption: each
is one action. The timers are several seconds, the answers milliseconds: a timer that
fires with frames in the air is the fault `slow`; a key
pair or a secret that cannot be computed is the fault `crypto`. The proxies in `Speaks` are external:
what `MeshNode8266.cpp` expects. The others are ESP32 nodes as written. A topic longer
than a slot is cut (`Cut`), and compared with the whole topic, as in the code. `told`
records what was handed to the radio; a send that fails is a lost frame.

*Downlink.* `buffers` is the array of rings with head, tail and count; `Drain` follows
the loop of `drainBuffer`. `Queues` is the refinement mapping to `DownlinkQueue`.

*BatteryNode.* `state` is RTC memory, `nvs` the blob, `epoch` `MeshNetwork::_epoch` in
RAM. `Save` may fail and does not say so;
`MeshBeginFails` leaves the epoch alone, and the application may go on or try again. `Wake` keeps RTC memory, `Reset` zeroes it.
`before` and `parents` are ghosts.

*ServiceDiscovery.* An entry that is not valid is never used again, as in the code;
`Cut` gives a name as it is stored. `SerializeServices` and `Deserialize` follow the loops of the code. An announcement arrives, late, or not at all; when
its TODO is done, ROUTE_ADV carries it. `heard` is a ghost.

## Runs

| Run | Instance | Shows |
|---|---|---|
| hs_faults | 4 nodes, 2 contexts and 1 peer per node, one fault of any kind, timers at any time; 1.4 M states | `TypeOK`, `OneContextPerMac`, `KeyIsOurs`, `EphemeralsServeOnce`, `ResponderKeyIsInitiators`, `PeerHasRoute` |
| hs_live | 2 nodes, losses and silences, prompt frames | `ExchangeEnds`, `NeighboursJoin`, `ResponderAgreesAtOnce` |
| pt_set | 4 MACs, one on battery, table of 3, handlers during the sweep; 61 k states | `EveryPeerFound`, `ImplementsPeerSet`, `SilentPeersLeave` |
| rt_net | 4 nodes, triangle and tail, a cut or a switch-off, a loss, a delay; 67 k states | `LoopFreeUntilFault`, `Converges` |
| rt_path | the same mesh, a cut or a switch-off, a delay; packets of two nodes of any size to the tail and to the outside; 168 k states | `NearerEachHop`, `PacketsEnd` |
| sf_cache | 2 neighbours, 3 numbers, a cache of 2, a copy, a loss; 125 k states | `DropsTheRecent`, `HeardAgain` |
| fr_link | 2 senders, 2 sessions, a loss, a repetition and a reset; 1.8 M states | `DeliveredWhole`, `OneSessionPerMessage`, `SessionsEnd` |
| px_subs | 3 clients, 2 slots, a topic and a `#`, symmetric; 3.9 M states | `OneSlotPerClient`, `StoredWasAsked`, `SubscribedOrTaken`, `ForwardedToAll` |
| bn_cycle | 3 children, 2 rings of 2; 3 parents for 2 places, 2 resets, a failed write, failed starts of the mesh; 763 k states | `ImplementsQueue`, `SleepLosesNothing`, `ParentsSurvive` |
| sd_table | 2 nodes, 2 names (one too long), tables of 2, a late announcement; 265 k states | `FoundIsLatest`, `HeardIsFound`, `GoneInTheEnd` |
| c8_client | 2 proxies, 2 offers, 2 topics (one too long), two faults of any kind; 404 k states | `ConnectedWithItsProxy`, `ProxyKnowsTopics`, `Connects` |
| c8_esp32 | the same with ESP32 proxies, no faults | violates `Connects` |

**Bounds.** hs_faults: a hears three nodes and has two contexts, so the third exchange
evicts one; b hears a too, so that exchanges cross; g hears b and not a; d is out of
range in the other direction and never answers. a draws three ephemerals and b and g
one each: enough for a run to be replaced while frames of the earlier one are in the
air. One peer per node makes every join an eviction. The
route tables hold every node. pt_set: four MACs for three
places, hashed so that two clusters meet across the end of the table; `MaxRehash` is more
than the loop of a removal ever takes (`RehashEnds`). rt_net: a
triangle has the smallest loop of three, the tail a destination to count to; `Infinity`
5 is above every distance there. fr_link: three messages can want two sessions; of three
lengths one is refused and one, longer than the byte counts, is sent as a short one.
rt_path: the gateway is where the tail is attached,
so that packets have several ways to it, one of which is cut; any
packet may be lost, and advertisements are in rt_net only. sf_cache: three numbers for
a cache of two come round while an entry lives. px_subs: a slot has to change hands,
between comparison and send too. bn_cycle: rings overflow, and a message that fits the
ring and not the caller's buffer waits. sd_table: two providers of one name, and an
announcement that holds one service of two. c8_client: with two faults a key can be spoiled
and a timer fire early; three faults (6 M states) show the same and take too long for
everyday use.

**Where a run is smaller than the code.** The tables and advertisements of rt_net and rt_path
hold every destination, so eviction from a full route table and truncated
advertisements are modelled and not exercised: with them no table converges. fr_link has one sending task per node; with two, both
tasks may take one number and TLC finds `DeliveredWhole` violated: the counter is not
locked. It sends fewer messages than there are numbers, so no number comes round, and its
resets take longer than the timeout of a session (2 s), as a start with its key
exchange usually does; with `SlowStart = FALSE` TLC finds `DeliveredWhole` violated. In
hs_faults no route table is full; with `MaxRoutes = 1` TLC finds `PeerHasRoute` violated.

**Fairness.** hs_live: each beacon, each delivery between two nodes and each context's
check is weakly fair: beacons recur every 10 or 15 s, a frame that is not lost arrives,
and loop() runs. `Prompt` says that no timer fires and no beacon is answered while
frames of the same two nodes are in the air; without it two nodes can go on crossing
each other's exchanges for ever. `ResponderAgreesAtOnce` is stated for a mesh of two:
a third node's ROUTE_WITHDRAW may drop the initiator's peer in the middle of an
exchange. rt_net: everything but faults goes on, and `Tick` waits for the rest of the
interval; rt_path adds that the frame in the air arrives or fails. fr_link: the
receiver's loop and time go on. pt_set: `loop()` begins a sweep again and again and
goes on with it. sf_cache: neighbours go on sending beacons and time passes. sd_table:
`update()` is called, time passes, a late announcement arrives; that a service is no
longer offered is the premise of `GoneInTheEnd`. c8_client: loop() is called,
proxies send beacons and answer, frames that are not lost arrive; faults are finite.
CHECK_DEADLOCK is off where counters and faults run out, or a connected client or an
idle proxy has nothing left to do.

## Where the code does other than one would think

* **c8_esp32 (violates `Connects`).** An ESP8266 never connects to an ESP32: offers are
  sent as DATA/IPv4 and awaited as PROXY. Past that, the key exchange would fail as
  well: the ESP8266's CONFIRM is encrypted and the ESP32 compares it as plaintext, and
  the ESP32's own CONFIRM is shorter than the tag the ESP8266 wants to check.

The rest was met while modelling; the models behave so, and no run is kept for it.

* After `_rotateEpoch` both ends keep each other as peers without a key, and only an
  unknown MAC's beacon starts an exchange: the renegotiation that `MeshNetwork.cpp:1107`
  promises does not come while they stay in range.
* The default route is set by the initiator's handler only (`MeshNetwork.cpp:594`); a
  node the gateway contacted first has none.
* Going backwards by index (`MeshNetwork.cpp:977`) does not survive the rehashing of
  `removePeer`, which may move an entry to an index that was passed. The peer leaves a
  sweep later, which is `SilentPeersLeave`.
* Removing a peer from a full table goes round it several times: the loop ends at the hole,
  and each entry it puts back may move the hole away. With 16 peers it takes up to 241
  iterations. The later rounds are needed: an entry that is moved past others hides them
  until they are put back too.
* Routes through a peer that timed out stay until they age out (`Router.cpp:178`
  against `MeshNetwork.cpp:1010`).
* No packet carries a hop count in the mesh header, and IP's is not touched by relays.
  `PacketsEnd` says that the tables alone end every loop; `NearerEachHop` that before a
  fault there is none.
* A node that is not in range of the gateway never learns its MAC (`MeshNetwork.cpp:457`),
  so lwIP's fallback never sends its packets to the outside.
* With a full route table a join evicts the direct route of another peer
  (`Router.cpp:48`), and a withdrawal of that peer finds no route and is ignored.
* A message of 257 frames is sent as one of a single frame (`Fragmentation.cpp:12`), and is
  delivered so: `DeliveredWhole` says that fragments are of one message, not that they
  are all of it.
* Fragment ids start again at a reset. If a fragment of the first message was lost and
  the sender starts again within 2 s, fragments of its new first message complete the
  old session.
* A packet of several frames never gets past its first relay (`MeshNetwork.cpp:751`).
* A node that does not relay advertises routes all the same, and drops what its neighbours
  then send through it (`MeshNetwork.cpp:957` against `746`).
* A battery node's first `MeshNetwork::begin` after a reset reads an epoch of 0 if it
  comes before `BatteryNode::begin`, which loads the stored one: they disagree until the
  next sleep. The interval given to `begin` yields to the stored one. A write to NVS that
  failed puts the older blob over newer RTC memory at the next start.
* A slot of `ServiceDiscovery` is used once: after eight services came and went the
  table takes no more. A name of 16 characters or more is stored cut, compared whole, and
  never found. Announcements overwrite a known address with 0.0.0.0.
* A sixth child of a parent never gets a buffer, and a first message larger than the
  caller's buffer blocks the others.
* A message forwarded by the proxy goes to whoever has the slot when it is sent. Unsubscribing
  takes a topic from the other clients of the proxy (`ProxyHandler.cpp:338`), which is why
  `SubscribedOrTaken` has its second half. A `+` in a topic is subscribed at the broker
  and forwarded to nobody.
* `evictLRU` compares absolute `millis()` values, so that after 49.7 days the latest peers
  look the oldest; the clock of `PeerTable` does not wrap. The patience with a battery
  peer, a uint32_t, wraps for sleeps of more than 16 days.

## Proofs

What a run shows on its instance a theorem shows for every mesh, table size, number of
faults and bound of the model, under the assumptions each module makes of its constants
and the hypotheses named here. An invariant a run checks is seldom inductive; this is
what had to be added, and why.

**Link establishment** (`HandshakeProofs`): `TypeCorrect`, `ContextTableSound`,
`LinkKeyGenuine`, `NoKeyReinstalled`, `ResponderFollowsInitiator`, `PeerKeepsRoute`, the
six invariants of hs_faults; the last if the nodes fit a route table (`RoomForRoutes`; 64
entries), because a full one evicts. Inductive is `IInv == TypeOK /\ TableInv /\ KeyInv /\
FramesGenuine`. `OneContextPerMac` needs its second half, that no slot before a context
in use still has its MAC, because `_freeHandshake` looks at MACs only. That a key is
never installed twice (`ServedOnce`) needs that a context in use has not served
(`ContextUnserved`), which needs that two contexts never come from one draw
(`DistinctRuns`) and that the context is gone once it has served. That a responder
follows its initiator needs that a CONFIRM in the air was sent by a node that had
installed its key (`FramesGenuine`), which holds however often the frame is repeated,
since history only grows.

`ResponderAgrees` is `ResponderAgreesAtOnce` for prompt frames, losses and silences, and a
mesh of two (`Calm`): each of these is needed. Its invariant `PromptInv` is about the air:
there is one key frame at most, and who sent a CONFIRM holds its key until it arrives,
because no timer fires in between and nobody else is there to evict or withdraw.

**Peers** (`TableProofs`): `PeerTypeCorrect`; `PeerAlwaysFound`; `PeerTableImplementsSet`, that
the hash table, with deletion in place, eviction and the sweep, implements `PeerSet` step by
step, for every hash and size. The invariant `PeerInv` adds to the types that the table is
`Sound` (no MAC twice, no free position on the way to an entry) and that `_count` is the
number of entries held. The hard part is the loop of `removePeer`: `SoundBut` says what holds
while it runs, that an entry which cannot be found is one the loop has still to pass; it
is kept from one iteration to the next (`RehashStep`), and gives `Sound` where the loop meets
a free position (`RemovalEnd`). That it does so within `MaxRehash == Size * Size` iterations is
`RehashEnds`: an entry that moves comes nearer to its home, so the sum of the distances falls
(`LagDrops`), and a whole round without a move would be past the hole.

**Routes** (`RouterProofs`): `RoutingTypeCorrect`; `RoutingLoopFree`, that before the
first fault the next hops form no loop; `PacketComesNearer`, that a packet is nearer to
its destination with each hop then. The invariant, `Typed` and, before the first fault,
`Loopless`, is about all tables and every advertisement at once:

* `Nearer`: a next hop has a shorter route than the node that uses it. An advertisement
  that is late must not break it, so
* `WireTimely`: what n has said to p, and p has not heard yet, is no shorter than what n
  has, and no longer than what p has through n; which holds because routes only get
  shorter (`Shorter`) while none expires; and none expires because
* `Refreshed`: a route is advertised again in each interval, or the advertisement is
  under way.

Learning goes over the entries one by one and can evict: `LearnSteps` and `LearnFacts`
show by `Induction` that with room for all destinations it gives what one would
think. The hypothesis `SmallMesh` says so: routes to all other nodes fit in a table (64) and
in an advertisement (18 entries), and a route lives longer than one interval (three). It is
needed: where an advertisement is cut short, TLC finds `LoopFreeUntilFault` violated,
because routes expire that others still use. A mesh of up to 19 nodes satisfies it.
`PacketComesNearer` has one more, `RelaysBetween`: nodes that do not relay, those on
battery, have one neighbour. They advertise routes as others do
(`MeshNetwork.cpp:957`) and drop what they get, so that between two others they are a
place where packets vanish, and TLC finds `NearerEachHop` violated.

**Seen frames** (`RouterProofs`): `SeenTypeCorrect`, and `SeenDropsTheRecent` from
`RingIsWindow`: read backwards from `idx`, the ring is the window of the last broadcasts,
but for expired entries that a lookup gave up.

**Fragments** (`FragmentationProofs`): `FragOneSession` for any tasks and any resets;
`FragDeliveredWhole` and `FragTypeCorrect` if one task of a node sends (`Task = {T}`), because
two tasks in `++_fragIdCounter` can take one number (not locked in the code), and if a start
takes longer than the timeout (`SlowStart`), because ids start again: TLC finds
`DeliveredWhole` violated without the one and without the other. That a node sends fewer messages between two resets than there are ids
(65,536) is in `FragmentationAssumption`: the bound of the model. `IdsCount` says that a message's id is its number, `WholeSoFar`
that a session's fragments are of one message, `TotalsAgree` that sender, fragments in the
air and session agree on how many there are.

**Proxy** (`ProxyHandlerProofs`): `ProxyTypeCorrect`, `ProxyOneSlot`, `ProxyStoredWasAsked`,
`ProxySubscribed`, `ProxyForwarded`, the invariants of px_subs. `CoveredOrPending` says for
every moment what `SubscribedOrTaken` says for the quiet ones: a topic is at the broker,
was taken, or is what one of the two tasks will still send. `OwedAhead` says that
who is still owed a message has a slot the loop has not passed.

**ESP8266 client** (`MeshNode8266Proofs`): `ClientTypeCorrect`, `ClientConnectedWithItsProxy`
from `ConfirmsAreInstalled` (a CONFIRM in the air is of a key its proxy has), and
`ClientProxyKnowsTopics` from `OneSlotPerTopic`.

**Battery nodes** (`BatteryNodeProofs`): `BatteryParentsSurvive` and `BatterySleepLosesNothing`
from `ParentsKept` and `SleepKept`, which say which of the three copies holds what at each
point of a start. `DownlinkImplementsQueue` is a refinement: every step of the ring buffers,
of whatever size, is a step of the queues of `DownlinkQueue` or leaves them as they are. Its
invariant is `DownInv`: head, tail and count of every ring agree (`Ring`), and no child has
two. `PushFacts` and `DrainFacts` say what one operation does to a ring, the latter by
`Induction` over the messages drained.

**Services** (`TableProofs`): `ServiceTypeCorrect`, `LatestIsFound` and `RecentIsFound`, the latter two the
invariants of sd_table, for announcements of any length. `Agrees` relates the table to what was
heard, for every stored name: valid entries say what was heard last and how long ago
(`Current`), no name has two (`Once`), and a recent one has an entry while the table has room
(`Complete`). A reply keeps all three (`ReplyAgrees`), and an announcement is a sequence of
replies (`DeserializeAgrees`, by `Induction`). The assumption on `Cut` is that a name cut once
is not cut again.

`Induction` proves, from the well-foundedness of the natural numbers in TLAPS's library, that
a set that holds 0 and the successor of each of its members below N holds all of 0..N, and that
recursive functions are defined. The library's own induction theorems have an operator
as a parameter, which the provers here do not instantiate; this form, over sets, they do.

**Model-checked only.**

* All liveness, as TLAPS does not do ENABLED and fairness: `ExchangeEnds`, `NeighboursJoin`,
  `SilentPeersLeave`, `Converges`, `PacketsEnd`, `HeardAgain`, `SessionsEnd`, `GoneInTheEnd`,
  `Connects`.

The invariants, action properties and refinements of the runs are all proved.

## Not modelled

* Two tasks inside one operation of a table: the rehash in `removePeer`, the route
  pointer lwIP's task keeps over several sends (`MeshNetwork.cpp:767`).
* Broadcast data and ARP resolution on the data path (broadcasts are not relayed), and
  the clock frame that answers a battery child. ROUTE_WITHDRAW is not relayed by the
  code, so no frame that changes modelled state is forwarded.
* Sequence numbers for replay protection: `getNextSeqTx` and `checkAndUpdateSeqRx` are
  called by nothing. Gateway election in Router: called by nothing.
* The broker address an ESP8266 should learn from beacons: an ESP32's beacon with a
  broker has at least ten bytes, is read as a battery node's, and the byte then taken
  for the length never fits, so the address never changes (`MeshNode8266.cpp:432`).
* The uplink and the receive windows of BatteryNode and the frames of ServiceDiscovery,
  which are TODOs in the code; its mDNS bridge, which publishes once.
* Onboarding, WebUI and the stateless or external parts of the table above.

## Plan

1. (done) `Handshake` with its proofs, the core; `PeerTable` against `PeerSet`;
   `Routing`; `Fragmentation`; `ProxyHandler`; `MeshNode8266`.
2. (done) `DataPath` over `Routing`, `SeenFrames`, `Downlink` against `DownlinkQueue`,
   `BatteryNode`, `ServiceDiscovery`, battery peers in `PeerTable`, forwarding in
   `ProxyHandler`.
3. (done) Proofs of the safety properties of `ProxyHandler`, `SeenFrames`, `MeshNode8266`,
   `Fragmentation`, `BatteryNode`, `Routing` and `DataPath`; `Downlink` implements
   `DownlinkQueue`.
4. (done) Proofs of `ResponderAgreesAtOnce`, of `PeerTable` and that it implements `PeerSet`,
   and of `ServiceDiscovery`.
5. A composition of `MeshNode8266` with `ProxyHandler`: the client's topics against
   the proxy's slots over reconnections. A run of `Fragmentation` with ids that come round.
