---------------------------- MODULE MeshNode8266 ----------------------------
(***************************************************************************)
(* MeshNode8266.cpp: an ESP8266 that reaches the MQTT broker through the   *)
(* proxy of an ESP32 node.  It looks for a channel, collects the offers of *)
(* the proxies around it, agrees on a link key with the one it hears best  *)
(* and then tells it the topics of the application.                        *)
(*                                                                         *)
(* The ESP8266 runs loop(), the application and the receive callback one   *)
(* after the other, so each of them is one action.  The proxies in Speaks  *)
(* are external: they speak the protocol the client is written for.  The   *)
(* others are the ESP32 nodes of this repository, as they answer today     *)
(* (ProxyHandler::handleDiscovery, MeshNetwork::_handleKeyExchHello and    *)
(* _handleKeyExchConfirm).                                                 *)
(*                                                                         *)
(* Data abstraction.  A key pair and its nonce are drawn together and are  *)
(* one number; a link key is the proxy and the numbers of the two sides.   *)
(* The private key 0 is the one that was cleared.                          *)
(***************************************************************************)
EXTENDS Integers, FiniteSets, Sequences, SequencesExt

CONSTANTS
    Proxy,      \* the ESP32 nodes in range that have a broker
    Speaks,     \* those that speak the client's protocol
    NoProxy,    \* the zeroed MAC
    Topic,      \* the topics of the application
    Cut,        \* Cut[t]: what 63 bytes hold of topic t
    NoTopic,    \* an inactive slot of _subs
    Rssi,       \* the strengths an offer may be heard with
    MaxOffers,  \* MESH8266_MAX_PROXY_OFFERS
    MaxSubs,    \* MESH8266_MAX_SUBSCRIPTIONS
    FaultKinds, \* which of "loss", "dup", "slow", "restart", "forget", "crypto" may happen
    MaxFaults   \* bound: faults in a behaviour

Names == Topic \cup {Cut[t] : t \in Topic}

ASSUME ClientAssumption ==
    /\ Speaks \subseteq Proxy /\ NoProxy \notin Proxy
    /\ DOMAIN Cut = Topic /\ NoTopic \notin Names
    /\ \A t \in Topic : Cut[t] \in Topic => Cut[t] = t
    /\ Rssi \subseteq Int /\ MaxOffers \in Nat /\ MaxSubs \in Nat \ {0}
    /\ MaxFaults \in Nat

VARIABLES
    state,      \* _state
    offers,     \* _offers, the valid ones, which are a prefix of the array
    proxy,      \* _proxyMac
    pair,       \* key pairs drawn so far
    priv,       \* _localPriv
    linkKey,    \* _linkKey
    subs,       \* _subs
    up, down,   \* the frames in the air to the proxies, and to the client
    drawn,      \* (proxy) key pairs drawn
    exch,       \* (proxy) its handshake context for the client
    faults,
    derived,    \* (history) the link keys the proxies have installed
    told        \* (history) topics the proxy was last asked to subscribe to

client == <<state, offers, proxy, pair, priv, linkKey, subs, told>>
proxies == <<drawn, exch, derived>>
vars == <<client, up, down, proxies, faults>>

Key(p, c, g) == [proxy |-> p, client |-> c, draw |-> g]
NoKey == Key(NoProxy, 0, 0)
Frame(t, p, k) == [type |-> t, proxy |-> p, key |-> k]
Discovery == {Frame("DISCOVERY", p, NoKey) : p \in Proxy}

Fault(k) == k \in FaultKinds /\ faults < MaxFaults /\ faults' = faults + 1

\* A frame to the client is taken from the air, or comes again later.
Take(f) ==
    \/ down' = down \ {f} /\ UNCHANGED faults
    \/ Fault("dup") /\ UNCHANGED down

\* The timers are seconds and the answers milliseconds: that one fires before
\* every frame arrived is a fault.
TimerFires ==
    \/ up \cup down = {} /\ UNCHANGED faults
    \/ up \cup down # {} /\ Fault("slow")

-----------------------------------------------------------------------------
(* The client: begin, loop and the receive callback.                       *)

\* Fault: the discovery is not sent again.
SilentDiscovery ==
    /\ state' = "DISCOVERING"
    /\ offers' = << >>
    /\ UNCHANGED up

\* _startDiscovery, which every caller enters in or sets to DISCOVERING.
StartDiscovery ==
    /\ state' = "DISCOVERING"
    /\ offers' = << >>
    /\ up' = up \cup Discovery

\* _handleJoinBeacon while scanning: the channel is found.  The ESP32's beacons
\* never change _brokerHost: with the broker's name they have at least 10 bytes,
\* and are read as a battery node's (432).
HearBeacon ==
    /\ state = "SCANNING"
    /\ StartDiscovery
    /\ UNCHANGED <<proxy, pair, priv, linkKey, subs, told, down, proxies, faults>>

\* Fault: an offer is written past the table.
AddAlways(o) == Append(offers, o)

\* _handleProxyOffer: the offers of one proxy may take several slots.
AddOffer(o) == IF Len(offers) < MaxOffers THEN Append(offers, o) ELSE offers

HandleOffer(f, r) ==
    /\ state = "DISCOVERING" /\ f.type = "OFFER"
    /\ offers' = AddOffer([proxy |-> f.proxy, rssi |-> r])
    /\ UNCHANGED <<state, proxy, pair, priv, linkKey, subs, told, up>>

\* _selectBestProxy: the first of the strongest.
Best(i) ==
    /\ i \in DOMAIN offers
    /\ \A j \in DOMAIN offers : /\ offers[j].rssi <= offers[i].rssi
                                /\ j < i => offers[j].rssi < offers[i].rssi

\* _initiateHandshake.  The link key of an earlier exchange is not cleared.
InitiateHandshake(p) ==
    /\ state' = "HANDSHAKE"
    /\ proxy' = p
    /\ pair' = pair + 1
    /\ priv' = pair'
    /\ up' = up \cup {Frame("HELLO", p, Key(p, pair', 0))}
    /\ UNCHANGED <<offers, linkKey, subs, told>>

\* The same if no key pair can be generated: back to where it came from.
GenerationFails(p) ==
    /\ Fault("crypto")
    /\ proxy' = p
    /\ StartDiscovery
    /\ UNCHANGED <<pair, priv, linkKey, subs, told>>

DiscoveryTimeout ==
    /\ state = "DISCOVERING"
    /\ \/ offers = << >> /\ TimerFires /\ StartDiscovery
          /\ UNCHANGED <<proxy, pair, priv, linkKey, subs, told>>
       \/ \E i \in DOMAIN offers :
             /\ Best(i)
             /\ \/ TimerFires /\ InitiateHandshake(offers[i].proxy)
                \/ GenerationFails(offers[i].proxy)
    /\ UNCHANGED <<down, proxies>>

HandshakeTimeout ==
    /\ state = "HANDSHAKE" /\ TimerFires
    /\ StartDiscovery
    /\ UNCHANGED <<proxy, pair, priv, linkKey, subs, told, down, proxies>>

\* _handleKeyExchReply: a second REPLY finds the private key cleared.
HandleReply(f) ==
    /\ state = "HANDSHAKE" /\ f.type = "REPLY" /\ f.proxy = proxy
    /\ linkKey' = Key(proxy, priv, f.key.draw)
    /\ priv' = 0
    /\ up' = up \cup {Frame("CONFIRM", proxy, linkKey')}
    /\ UNCHANGED <<state, offers, proxy, pair, subs, told>>

\* The same if no secret can be computed: the link key stays as it was.
AgreementFails(f) ==
    /\ state = "HANDSHAKE" /\ f.type = "REPLY" /\ f.proxy = proxy
    /\ Fault("crypto")
    /\ StartDiscovery
    /\ UNCHANGED <<proxy, pair, priv, linkKey, subs, told>>

\* Fault: a CONFIRM is taken without being decrypted.
AnyKey(f) == TRUE

\* An ESP32 confirms in plaintext, with 8 bytes: less than the tag alone.
Decrypts(f) == f.key = linkKey

\* The topics of the active slots.
Held == {subs[i] : i \in DOMAIN subs} \ {NoTopic}

\* Fault: only the first slot is told.
HeldFirst == {subs[1]} \ {NoTopic}

\* _sendProxyConnect and _resubscribeAll: what the proxy is asked for.
ResubscribeAll == Held

\* _handleKeyExchConfirm.
HandleConfirm(f) ==
    /\ state = "HANDSHAKE" /\ f.type = "CONFIRM" /\ f.proxy = proxy /\ Decrypts(f)
    /\ state' = "CONNECTED"
    /\ told' = ResubscribeAll
    /\ UNCHANGED <<offers, proxy, pair, priv, linkKey, subs, up>>

\* Every other frame is dropped: an offer in a DATA frame (an ESP32's) always is.
Ignore(f) ==
    /\ \/ f.type = "DATA"
       \/ f.type = "OFFER" /\ state # "DISCOVERING"
       \/ f.type \in {"REPLY", "CONFIRM"} /\ (state # "HANDSHAKE" \/ f.proxy # proxy)
       \/ f.type = "CONFIRM" /\ state = "HANDSHAKE" /\ ~Decrypts(f)
    /\ UNCHANGED <<client, up>>

\* _onFrameReceived.
OnFrameReceived ==
    /\ \E f \in down :
          \/ /\ Take(f)
             /\ \/ \E r \in Rssi : HandleOffer(f, r)
                \/ HandleReply(f) \/ HandleConfirm(f) \/ Ignore(f)
          \/ AgreementFails(f) /\ down' = down \ {f}
    /\ UNCHANGED proxies

-----------------------------------------------------------------------------
(* The client: the application.                                            *)

SlotsOf(t) == {i \in DOMAIN subs : subs[i] = t}

\* mqttSubscribe.  A slot holds what fits, and is compared with the whole topic.
MqttSubscribe(t) ==
    /\ SlotsOf(t) = {}
    /\ \E i \in SlotsOf(NoTopic) :
          /\ \A j \in SlotsOf(NoTopic) : i <= j
          /\ subs' = [subs EXCEPT ![i] = Cut[t]]
    /\ told' = IF state = "CONNECTED" THEN told \cup {t} ELSE told
    /\ UNCHANGED <<state, offers, proxy, pair, priv, linkKey, up, down, proxies, faults>>

\* mqttUnsubscribe: the proxy is told whether or not the topic is held.
MqttUnsubscribe(t) ==
    /\ subs' = IF SlotsOf(t) = {} THEN subs
               ELSE [subs EXCEPT ![CHOOSE i \in SlotsOf(t) : \A j \in SlotsOf(t) : i <= j]
                        = NoTopic]
    /\ told' = IF state = "CONNECTED" THEN told \ {t} ELSE told
    /\ UNCHANGED <<state, offers, proxy, pair, priv, linkKey, up, down, proxies, faults>>

-----------------------------------------------------------------------------
(* The proxies.                                                            *)

NoExch == [client |-> 0, draw |-> 0]

\* ProxyHandler::handleDiscovery: an ESP32 sends its offer in a DATA frame.
OfferFrame(p) == Frame(IF p \in Speaks THEN "OFFER" ELSE "DATA", p, NoKey)

\* MeshNetwork::_handleKeyExchHello.
HandleHello(f) ==
    /\ f.type = "HELLO"
    /\ drawn' = [drawn EXCEPT ![f.proxy] = @ + 1]
    /\ exch' = [exch EXCEPT ![f.proxy] =
                    [client |-> f.key.client, draw |-> drawn'[f.proxy]]]
    /\ down' = down \cup {Frame("REPLY", f.proxy, Key(f.proxy, 0, drawn'[f.proxy]))}
    /\ UNCHANGED derived

\* What an ESP32 makes of an encrypted CONFIRM never matches.
Confirms(f) ==
    /\ f.proxy \in Speaks
    /\ exch[f.proxy] # NoExch
    /\ f.key = Key(f.proxy, exch[f.proxy].client, exch[f.proxy].draw)

\* MeshNetwork::_handleKeyExchConfirm: the context is given up either way.
ProxyHandleConfirm(f) ==
    /\ f.type = "CONFIRM"
    /\ exch' = [exch EXCEPT ![f.proxy] = NoExch]
    /\ down' = IF Confirms(f) THEN down \cup {f} ELSE down
    /\ derived' = IF Confirms(f) THEN derived \cup {f.key} ELSE derived
    /\ UNCHANGED drawn

ProxyReceives ==
    /\ \E f \in up :
          /\ \/ up' = up \ {f} /\ UNCHANGED faults
             \/ Fault("dup") /\ UNCHANGED up
          /\ \/ f.type = "DISCOVERY" /\ down' = down \cup {OfferFrame(f.proxy)}
                /\ UNCHANGED proxies
             \/ HandleHello(f) \/ ProxyHandleConfirm(f)
    /\ UNCHANGED client

-----------------------------------------------------------------------------
(* Faults.                                                                 *)

Lose ==
    /\ Fault("loss")
    /\ \/ \E f \in up : up' = up \ {f} /\ UNCHANGED down
       \/ \E f \in down : down' = down \ {f} /\ UNCHANGED up
    /\ UNCHANGED <<client, proxies>>

\* begin: with a channel the discovery starts at once, without it the scan.
Restart ==
    /\ Fault("restart")
    /\ \/ StartDiscovery
       \/ state' = "SCANNING" /\ offers' = << >> /\ UNCHANGED up
    /\ proxy' = NoProxy /\ priv' = 0 /\ linkKey' = NoKey /\ told' = {}
    /\ subs' = [i \in 1..MaxSubs |-> NoTopic]
    /\ UNCHANGED <<pair, down, proxies>>

\* A proxy forgets the exchange: its restart, or the timeout of the context.
Forget ==
    /\ Fault("forget")
    /\ \E p \in Proxy : exch[p] # NoExch /\ exch' = [exch EXCEPT ![p] = NoExch]
    /\ UNCHANGED <<client, up, down, drawn, derived>>

-----------------------------------------------------------------------------

Init ==
    /\ \/ state = "SCANNING" /\ up = {}
       \/ state = "DISCOVERING" /\ up = Discovery
    /\ offers = << >> /\ proxy = NoProxy
    /\ pair = 0 /\ priv = 0 /\ linkKey = NoKey
    /\ subs = [i \in 1..MaxSubs |-> NoTopic] /\ told = {}
    /\ down = {} /\ faults = 0
    /\ drawn = [p \in Proxy |-> 0] /\ exch = [p \in Proxy |-> NoExch]
    /\ derived = {}

Next ==
    \/ HearBeacon \/ DiscoveryTimeout \/ HandshakeTimeout \/ OnFrameReceived
    \/ \E t \in Topic : MqttSubscribe(t) \/ MqttUnsubscribe(t)
    \/ ProxyReceives
    \/ Lose \/ Restart \/ Forget

Spec == Init /\ [][Next]_vars

\* loop() keeps being called, an ESP32 sends a beacon every JOIN_BEACON interval,
\* and a frame that is not lost arrives.
FairSpec ==
    /\ Spec
    /\ WF_vars(HearBeacon) /\ WF_vars(DiscoveryTimeout) /\ WF_vars(HandshakeTimeout)
    /\ WF_vars(OnFrameReceived) /\ WF_vars(ProxyReceives)

-----------------------------------------------------------------------------
(* Properties.                                                             *)

Keys == [proxy : Proxy \cup {NoProxy}, client : Nat, draw : Nat]

\* Every variable keeps its type; the offers never pass the end of their table.
TypeOK ==
    /\ state \in {"SCANNING", "DISCOVERING", "HANDSHAKE", "CONNECTED"}
    /\ offers \in SeqOf([proxy : Proxy, rssi : Rssi], MaxOffers)
    /\ proxy \in Proxy \cup {NoProxy}
    /\ pair \in Nat /\ priv \in {0, pair} /\ linkKey \in Keys
    /\ subs \in [1..MaxSubs -> Names \cup {NoTopic}]
    /\ up \subseteq [type : {"DISCOVERY", "HELLO", "CONFIRM"}, proxy : Proxy, key : Keys]
    /\ down \subseteq [type : {"OFFER", "DATA", "REPLY", "CONFIRM"}, proxy : Proxy, key : Keys]
    /\ drawn \in [Proxy -> Nat]
    /\ exch \in [Proxy -> [client : Nat, draw : Nat]]
    /\ derived \subseteq Keys /\ told \subseteq Names

\* A client that is connected has a link key its proxy has installed too, though
\* the key of an earlier exchange stays in _linkKey, a second REPLY spoils the new
\* one, and CONFIRMs of both may arrive in any order (MeshNode8266.cpp:299-378).
ConnectedWithItsProxy ==
    state = "CONNECTED" => linkKey.proxy = proxy /\ linkKey \in derived

\* A connected client has told its proxy of exactly the topics it holds, whenever
\* the application subscribed and unsubscribed, before, during and after the
\* connection (MeshNode8266.cpp:136-188, 397-410); of the topics that fit a slot.
ProxyKnowsTopics ==
    state = "CONNECTED" => \A t \in Topic : Cut[t] = t => (t \in Held <=> t \in told)

\* Whatever is lost, repeated, late or restarted, a finite number of times, the
\* client is connected again.  esp8266/spec.md:44-46 and 82 say so of every ESP32.
Connects == []<>(state = "CONNECTED")
=============================================================================
