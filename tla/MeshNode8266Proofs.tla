-------------------------- MODULE MeshNode8266Proofs --------------------------
(* Theorems about MeshNode8266.tla, for every set of proxies, whichever of    *)
(* them speak the client's protocol, every set of topics and every mix of     *)
(* faults.                                                                    *)
EXTENDS MeshNode8266, TLAPS

-----------------------------------------------------------------------------
(* The inductive invariants.                                                *)

\* A CONFIRM on its way to the client is of a key its proxy has installed.
ConfirmsAreInstalled ==
    \A f \in down : f.type = "CONFIRM" => f.key \in derived /\ f.key.proxy = f.proxy

\* No topic is in two slots.
OneSlotPerTopic ==
    \A t \in Topic : \A i, j \in DOMAIN subs : subs[i] = t /\ subs[j] = t => i = j

-----------------------------------------------------------------------------
(* The table of offers.                                                     *)

Offer == [proxy : Proxy, rssi : Rssi]
Offers == SeqOf(Offer, MaxOffers)
UpFrames == [type : {"DISCOVERY", "HELLO", "CONFIRM"}, proxy : Proxy, key : Keys]
DownFrames == [type : {"OFFER", "DATA", "REPLY", "CONFIRM"}, proxy : Proxy, key : Keys]

\* A table without offers is a table.
LEMMA NoOffers == ClientAssumption => << >> \in Offers
<1> SUFFICES ASSUME ClientAssumption
             PROVE  << >> \in Offers
  OBVIOUS
<1>1. 0 \in 0..MaxOffers /\ << >> \in [1..0 -> Offer]
  BY DEF ClientAssumption
<1>2. QED BY <1>1 DEF Offers, SeqOf

\* Adding an offer keeps to the table.
LEMMA AddOfferType ==
  ASSUME ClientAssumption, offers \in Offers, NEW o \in Offer
  PROVE  AddOffer(o) \in Offers
<1>1. PICK n \in 0..MaxOffers : offers \in [1..n -> Offer]
  BY DEF Offers, SeqOf
<1>2. n \in Nat /\ n <= MaxOffers /\ MaxOffers \in Nat
  BY DEF ClientAssumption
<1>3. offers \in Seq(Offer) /\ Len(offers) = n
  BY <1>1, <1>2
<1>4. CASE Len(offers) < MaxOffers
  <2>1. n + 1 \in 0..MaxOffers
    BY <1>2, <1>3, <1>4
  <2>2. Append(offers, o) \in [1..(n + 1) -> Offer]
    <3> DEFINE a == Append(offers, o)
    <3>1. a \in Seq(Offer) /\ Len(a) = n + 1
      BY <1>3
    <3> HIDE DEF a
    <3>2. a \in [1..Len(a) -> Offer]
      BY <3>1
    <3>3. QED BY <3>1, <3>2 DEF a
  <2>3. QED BY <1>4, <2>1, <2>2 DEF AddOffer, Offers, SeqOf
<1>5. CASE ~(Len(offers) < MaxOffers)
  BY <1>5 DEF AddOffer
<1>6. QED BY <1>4, <1>5

\* An offer is of a proxy.
LEMMA OfferOfProxy ==
  ASSUME offers \in Offers, NEW i \in DOMAIN offers
  PROVE  offers[i].proxy \in Proxy
<1>1. PICK n \in 0..MaxOffers : offers \in [1..n -> Offer]
  BY DEF Offers, SeqOf
<1>2. QED BY <1>1 DEF Offer

-----------------------------------------------------------------------------
(* Type correctness.                                                        *)

\* The keys and frames the two sides build are well formed.
LEMMA FrameType ==
  /\ \A p \in Proxy \cup {NoProxy}, c, g \in Nat : Key(p, c, g) \in Keys
  /\ \A p \in Proxy, k \in Keys :
        /\ Frame("HELLO", p, k) \in UpFrames /\ Frame("CONFIRM", p, k) \in UpFrames
        /\ Frame("REPLY", p, k) \in DownFrames /\ OfferFrame(p) \in DownFrames
  /\ Discovery \subseteq UpFrames /\ NoKey \in Keys
<1>1. \A p \in Proxy \cup {NoProxy}, c, g \in Nat : Key(p, c, g) \in Keys
  BY DEF Key, Keys
<1>2. NoKey \in Keys
  BY <1>1 DEF NoKey
<1>3. QED BY <1>1, <1>2 DEF Frame, Discovery, OfferFrame, UpFrames, DownFrames

\* What the client holds are names of topics.
LEMMA HeldType ==
  ASSUME subs \in [1..MaxSubs -> Names \cup {NoTopic}]
  PROVE  Held \subseteq Names
BY DEF Held

LEMMA TypeStep == ClientAssumption /\ TypeOK /\ [Next]_vars => TypeOK'
<1> SUFFICES ASSUME ClientAssumption, TypeOK, [Next]_vars
             PROVE  TypeOK'
  OBVIOUS
<1>0. /\ state \in {"SCANNING", "DISCOVERING", "HANDSHAKE", "CONNECTED"}
      /\ offers \in Offers /\ proxy \in Proxy \cup {NoProxy}
      /\ pair \in Nat /\ priv \in {0, pair} /\ linkKey \in Keys
      /\ subs \in [1..MaxSubs -> Names \cup {NoTopic}]
      /\ up \subseteq UpFrames /\ down \subseteq DownFrames
      /\ drawn \in [Proxy -> Nat] /\ exch \in [Proxy -> [client : Nat, draw : Nat]]
      /\ derived \subseteq Keys /\ told \subseteq Names
  BY DEF TypeOK, Offers, Offer, UpFrames, DownFrames
<1> DEFINE ClientOK ==
             /\ state \in {"SCANNING", "DISCOVERING", "HANDSHAKE", "CONNECTED"}
             /\ offers \in Offers /\ proxy \in Proxy \cup {NoProxy}
             /\ pair \in Nat /\ priv \in {0, pair} /\ linkKey \in Keys
             /\ subs \in [1..MaxSubs -> Names \cup {NoTopic}]
             /\ told \subseteq Names
           ProxiesOK ==
             /\ drawn \in [Proxy -> Nat] /\ exch \in [Proxy -> [client : Nat, draw : Nat]]
             /\ derived \subseteq Keys
           AirOK == up \subseteq UpFrames /\ down \subseteq DownFrames
<1>1. SUFFICES (ClientOK /\ ProxiesOK /\ AirOK)'
  BY DEF TypeOK, Offers, Offer, UpFrames, DownFrames
<1>2. ASSUME StartDiscovery, UNCHANGED <<proxy, pair, priv, linkKey, subs, told, down, proxies>>
      PROVE  (ClientOK /\ ProxiesOK /\ AirOK)'
  BY <1>0, <1>2, NoOffers, FrameType DEF StartDiscovery, proxies
<1>3. CASE HearBeacon
  BY <1>2, <1>3 DEF HearBeacon
<1>4. CASE DiscoveryTimeout
  <2>1. ASSUME NEW i \in DOMAIN offers, InitiateHandshake(offers[i].proxy),
               UNCHANGED <<down, proxies>>
        PROVE  (ClientOK /\ ProxiesOK /\ AirOK)'
    <3>1. offers[i].proxy \in Proxy
      BY <1>0, OfferOfProxy
    <3>2. pair' \in Nat
      BY <1>0, <2>1 DEF InitiateHandshake
    <3>3. Frame("HELLO", offers[i].proxy, Key(offers[i].proxy, pair', 0)) \in UpFrames
      BY <3>1, <3>2, FrameType
    <3>4. QED BY <1>0, <2>1, <3>1, <3>2, <3>3 DEF InitiateHandshake, proxies
  <2>2. ASSUME NEW i \in DOMAIN offers, GenerationFails(offers[i].proxy),
               UNCHANGED <<down, proxies>>
        PROVE  (ClientOK /\ ProxiesOK /\ AirOK)'
    <3>1. offers[i].proxy \in Proxy
      BY <1>0, OfferOfProxy
    <3>2. QED BY <1>0, <2>2, <3>1, NoOffers, FrameType DEF GenerationFails, StartDiscovery, proxies
  <2>3. QED BY <1>2, <1>4, <2>1, <2>2 DEF DiscoveryTimeout
<1>5. CASE HandshakeTimeout
  BY <1>2, <1>5 DEF HandshakeTimeout
<1>6. CASE OnFrameReceived
  <2>1. PICK f \in down :
              /\ Take(f) \/ down' = down \ {f}
              /\ \/ \E r \in Rssi : HandleOffer(f, r)
                 \/ HandleReply(f) \/ HandleConfirm(f) \/ Ignore(f) \/ AgreementFails(f)
    BY <1>6 DEF OnFrameReceived
  <2>2. f.key.draw \in Nat /\ f.proxy \in Proxy
    BY <1>0 DEF DownFrames, Keys
  <2>3. down' \subseteq DownFrames /\ ProxiesOK'
    BY <1>0, <1>6, <2>1 DEF Take, OnFrameReceived, proxies
  <2>4. ASSUME NEW r \in Rssi, HandleOffer(f, r)
        PROVE  ClientOK' /\ up' \subseteq UpFrames
    <3>1. [proxy |-> f.proxy, rssi |-> r] \in Offer
      BY <2>2 DEF Offer
    <3>2. QED BY <1>0, <2>4, <3>1, AddOfferType DEF HandleOffer
  <2>5. ASSUME HandleReply(f)
        PROVE  ClientOK' /\ up' \subseteq UpFrames
    <3>1. linkKey' \in Keys /\ proxy \in Proxy
      BY <1>0, <2>2, <2>5, FrameType DEF HandleReply
    <3>2. Frame("CONFIRM", proxy, linkKey') \in UpFrames
      BY <3>1, FrameType
    <3>3. QED BY <1>0, <2>5, <3>1, <3>2 DEF HandleReply
  <2>6. ASSUME HandleConfirm(f)
        PROVE  ClientOK' /\ up' \subseteq UpFrames
    BY <1>0, <2>6, HeldType DEF HandleConfirm, ResubscribeAll
  <2>7. ASSUME Ignore(f)
        PROVE  ClientOK' /\ up' \subseteq UpFrames
    BY <1>0, <2>7 DEF Ignore, client
  <2>8. ASSUME AgreementFails(f)
        PROVE  ClientOK' /\ up' \subseteq UpFrames
    BY <1>0, <2>8, NoOffers, FrameType DEF AgreementFails, StartDiscovery
  <2>9. QED BY <2>1, <2>3, <2>4, <2>5, <2>6, <2>7, <2>8
<1>7. ASSUME NEW t \in Topic, MqttSubscribe(t)
      PROVE  (ClientOK /\ ProxiesOK /\ AirOK)'
  <2>1. Cut[t] \in Names /\ t \in Names
    BY DEF Names
  <2>2. subs' \in [1..MaxSubs -> Names \cup {NoTopic}]
    BY <1>0, <1>7, <2>1 DEF MqttSubscribe
  <2>3. QED BY <1>0, <1>7, <2>1, <2>2 DEF MqttSubscribe, proxies
<1>8. ASSUME NEW t \in Topic, MqttUnsubscribe(t)
      PROVE  (ClientOK /\ ProxiesOK /\ AirOK)'
  <2>1. subs' \in [1..MaxSubs -> Names \cup {NoTopic}]
    <3>1. \A k : [subs EXCEPT ![k] = NoTopic] \in [1..MaxSubs -> Names \cup {NoTopic}]
      BY <1>0
    <3>2. QED BY <1>0, <1>8, <3>1 DEF MqttUnsubscribe
  <2>2. QED BY <1>0, <1>8, <2>1 DEF MqttUnsubscribe, proxies
<1>9. CASE ProxyReceives
  <2>1. PICK f \in up :
              \/ f.type = "DISCOVERY" /\ down' = down \cup {OfferFrame(f.proxy)}
                 /\ UNCHANGED proxies
              \/ HandleHello(f) \/ ProxyHandleConfirm(f)
    BY <1>9 DEF ProxyReceives
  <2>2. f.key \in Keys /\ f.key.client \in Nat /\ f.proxy \in Proxy
    BY <1>0 DEF UpFrames, Keys
  <2>3. ClientOK' /\ up' \subseteq UpFrames
    BY <1>0, <1>9 DEF ProxyReceives, client
  <2>4. CASE down' = down \cup {OfferFrame(f.proxy)} /\ UNCHANGED proxies
    BY <1>0, <2>2, <2>3, <2>4, FrameType DEF proxies
  <2>5. CASE HandleHello(f)
    <3>1. drawn' \in [Proxy -> Nat]
      BY <1>0, <2>2, <2>5 DEF HandleHello
    <3>2. exch' \in [Proxy -> [client : Nat, draw : Nat]]
      BY <1>0, <2>2, <2>5, <3>1 DEF HandleHello
    <3>3. down' \subseteq DownFrames
      BY <1>0, <2>2, <2>5, <3>1, FrameType DEF HandleHello
    <3>4. QED BY <1>0, <2>3, <2>5, <3>1, <3>2, <3>3 DEF HandleHello
  <2>6. CASE ProxyHandleConfirm(f)
    <3>1. exch' \in [Proxy -> [client : Nat, draw : Nat]]
      BY <1>0, <2>6 DEF ProxyHandleConfirm, NoExch
    <3>2. f.type = "CONFIRM" => f \in DownFrames
      BY <1>0 DEF UpFrames, DownFrames
    <3>3. QED BY <1>0, <2>2, <2>3, <2>6, <3>1, <3>2 DEF ProxyHandleConfirm
  <2>7. QED BY <2>1, <2>4, <2>5, <2>6
<1>10. CASE Lose
  BY <1>0, <1>10 DEF Lose, client, proxies
<1>11. CASE Restart
  <2>1. subs' \in [1..MaxSubs -> Names \cup {NoTopic}]
    BY <1>11 DEF Restart
  <2>2. QED BY <1>0, <1>11, <2>1, NoOffers, FrameType DEF Restart, StartDiscovery, proxies
<1>12. CASE Forget
  <2>1. exch' \in [Proxy -> [client : Nat, draw : Nat]]
    BY <1>0, <1>12 DEF Forget, NoExch
  <2>2. QED BY <1>0, <1>12, <2>1 DEF Forget, client
<1>13. CASE UNCHANGED vars
  BY <1>0, <1>13 DEF vars, client, proxies
<1>14. QED
  BY <1>3, <1>4, <1>5, <1>6, <1>7, <1>8, <1>9, <1>10, <1>11, <1>12, <1>13 DEF Next

\* They hold initially.
LEMMA InitType == ClientAssumption /\ Init => TypeOK
<1> SUFFICES ASSUME ClientAssumption, Init
             PROVE  TypeOK
  OBVIOUS
<1>1. << >> \in Offers
  BY NoOffers
<1>2. {} \subseteq UpFrames /\ Discovery \subseteq UpFrames /\ NoKey \in Keys
  BY FrameType
<1>3. QED BY <1>1, <1>2 DEF Init, TypeOK, Offers, Offer, UpFrames, NoExch

\* The client and the proxies keep their types, and the offers their table.
THEOREM ClientTypeCorrect == Spec => []TypeOK
<1>1. Init => TypeOK
  BY InitType, ClientAssumption
<1>2. TypeOK /\ [Next]_vars => TypeOK'
  BY TypeStep, ClientAssumption
<1>3. QED BY <1>1, <1>2, PTL DEF Spec

-----------------------------------------------------------------------------
(* A connected client shares its key with its proxy.                        *)

\* Every CONFIRM in the air to the client was sent when its key was installed.
LEMMA ConfirmsStep == ConfirmsAreInstalled /\ [Next]_vars => ConfirmsAreInstalled'
<1> SUFFICES ASSUME ConfirmsAreInstalled, [Next]_vars
             PROVE  ConfirmsAreInstalled'
  OBVIOUS
<1>1. ASSUME down' \subseteq down, derived' = derived
      PROVE  ConfirmsAreInstalled'
  BY <1>1 DEF ConfirmsAreInstalled
<1>2. CASE ProxyReceives
  <2>1. PICK f \in up :
              \/ f.type = "DISCOVERY" /\ down' = down \cup {OfferFrame(f.proxy)}
                 /\ UNCHANGED proxies
              \/ HandleHello(f) \/ ProxyHandleConfirm(f)
    BY <1>2 DEF ProxyReceives
  <2>2. CASE down' = down \cup {OfferFrame(f.proxy)} /\ UNCHANGED proxies
    BY <2>2 DEF ConfirmsAreInstalled, OfferFrame, Frame, proxies
  <2>3. CASE HandleHello(f)
    BY <2>3 DEF HandleHello, ConfirmsAreInstalled, Frame
  <2>4. CASE ProxyHandleConfirm(f)
    BY <2>4 DEF ProxyHandleConfirm, Confirms, Key, ConfirmsAreInstalled
  <2>5. QED BY <2>1, <2>2, <2>3, <2>4
<1>3. CASE OnFrameReceived
  BY <1>1, <1>3 DEF OnFrameReceived, Take, proxies
<1>4. CASE Lose
  BY <1>1, <1>4 DEF Lose, proxies
<1>5. QED
  BY <1>1, <1>2, <1>3, <1>4
     DEF Next, HearBeacon, DiscoveryTimeout, HandshakeTimeout, MqttSubscribe, MqttUnsubscribe,
         Restart, Forget, proxies, vars

\* The link changes only with the state, and the last step to CONNECTED is a
\* CONFIRM under the key the client has.
LEMMA ConnectedStep ==
  ASSUME ConfirmsAreInstalled, ConnectedWithItsProxy, [Next]_vars
  PROVE  ConnectedWithItsProxy'
<1>1. ASSUME UNCHANGED <<state, linkKey, proxy>>, derived \subseteq derived'
      PROVE  ConnectedWithItsProxy'
  BY <1>1 DEF ConnectedWithItsProxy
<1>2. ASSUME state' # "CONNECTED"
      PROVE  ConnectedWithItsProxy'
  BY <1>2 DEF ConnectedWithItsProxy
<1>3. CASE HearBeacon \/ HandshakeTimeout \/ Restart
  BY <1>2, <1>3 DEF HearBeacon, HandshakeTimeout, Restart, StartDiscovery
<1>4. CASE DiscoveryTimeout
  BY <1>2, <1>4 DEF DiscoveryTimeout, StartDiscovery, InitiateHandshake, GenerationFails
<1>5. CASE OnFrameReceived
  <2>1. PICK f \in down : \/ \E r \in Rssi : HandleOffer(f, r)
                          \/ HandleReply(f) \/ HandleConfirm(f) \/ Ignore(f) \/ AgreementFails(f)
    BY <1>5 DEF OnFrameReceived
  <2>2. derived' = derived
    BY <1>5 DEF OnFrameReceived, proxies
  <2>3. CASE HandleConfirm(f)
    <3>1. /\ f.type = "CONFIRM" /\ f.proxy = proxy /\ f.key = linkKey
          /\ UNCHANGED <<proxy, linkKey>>
      BY <2>3 DEF HandleConfirm, Decrypts
    <3>2. f.key \in derived /\ f.key.proxy = f.proxy
      BY <3>1 DEF ConfirmsAreInstalled
    <3>3. QED BY <2>2, <3>1, <3>2 DEF ConnectedWithItsProxy
  <2>4. CASE HandleReply(f)
    BY <1>2, <2>4 DEF HandleReply
  <2>5. CASE (\E r \in Rssi : HandleOffer(f, r)) \/ Ignore(f)
    BY <1>1, <2>2, <2>5 DEF HandleOffer, Ignore, client
  <2>6. CASE AgreementFails(f)
    BY <1>2, <2>6 DEF AgreementFails, StartDiscovery
  <2>7. QED BY <2>1, <2>3, <2>4, <2>5, <2>6
<1>6. CASE ProxyReceives
  BY <1>1, <1>6 DEF ProxyReceives, HandleHello, ProxyHandleConfirm, client, proxies
<1>7. QED
  BY <1>1, <1>3, <1>4, <1>5, <1>6
     DEF Next, MqttSubscribe, MqttUnsubscribe, Lose, Forget, client, proxies, vars

\* A client is connected only with a key that its proxy has installed too.
THEOREM ClientConnectedWithItsProxy == Spec => []ConnectedWithItsProxy
<1>1. Init => ConfirmsAreInstalled /\ ConnectedWithItsProxy
  BY DEF Init, ConfirmsAreInstalled, ConnectedWithItsProxy
<1>2. ConfirmsAreInstalled /\ ConnectedWithItsProxy /\ [Next]_vars
         => (ConfirmsAreInstalled /\ ConnectedWithItsProxy)'
  BY ConfirmsStep, ConnectedStep
<1>3. QED BY <1>1, <1>2, PTL DEF Spec

-----------------------------------------------------------------------------
(* A connected client's proxy knows its topics.                             *)

\* Only a topic that fits its slot is ever found there.
LEMMA CutIsNoOther ==
  ASSUME ClientAssumption, NEW t \in Topic, NEW u \in Topic, Cut[t] = u
  PROVE  t = u /\ Cut[u] = u
BY DEF ClientAssumption

\* A subscription takes a free slot, and no topic but its own is in it.
LEMMA SubscribeSlots ==
  ASSUME ClientAssumption, TypeOK, OneSlotPerTopic, NEW t \in Topic, MqttSubscribe(t)
  PROVE  /\ OneSlotPerTopic'
         /\ \A u \in Topic : u # t => (u \in Held' <=> u \in Held)
         /\ Cut[t] = t => t \in Held'
<1>0. subs \in [1..MaxSubs -> Names \cup {NoTopic}] /\ NoTopic \notin Names
      /\ Topic \subseteq Names
  BY DEF TypeOK, ClientAssumption, Names
<1>1. PICK i \in 1..MaxSubs : subs[i] = NoTopic /\ subs' = [subs EXCEPT ![i] = Cut[t]]
  BY <1>0 DEF MqttSubscribe, SlotsOf
<1>2. \A j \in DOMAIN subs : subs[j] # t
  BY DEF MqttSubscribe, SlotsOf
<1>3. DOMAIN subs' = DOMAIN subs /\ DOMAIN subs = 1..MaxSubs
  BY <1>0, <1>1
<1>4. /\ subs'[i] = Cut[t]
      /\ \A j \in 1..MaxSubs : j # i => subs'[j] = subs[j]
  BY <1>0, <1>1
<1>5. OneSlotPerTopic'
  <2>1. SUFFICES ASSUME NEW u \in Topic, NEW j \in 1..MaxSubs, NEW k \in 1..MaxSubs,
                        subs'[j] = u, subs'[k] = u
                 PROVE  j = k
    BY <1>3 DEF OneSlotPerTopic
  <2>2. CASE Cut[t] = u
    <3>1. u = t
      BY <2>2, CutIsNoOther
    <3>2. QED BY <1>2, <1>3, <1>4, <2>1, <3>1
  <2>3. CASE Cut[t] # u
    BY <1>3, <1>4, <2>1, <2>3 DEF OneSlotPerTopic
  <2>4. QED BY <2>2, <2>3
<1>6. ASSUME NEW u \in Topic, u # t
      PROVE  u \in Held' <=> u \in Held
  <2>1. u # NoTopic /\ u # Cut[t]
    BY <1>0, <1>6, CutIsNoOther
  <2>2. QED BY <1>1, <1>3, <1>4, <2>1 DEF Held
<1>7. ASSUME Cut[t] = t
      PROVE  t \in Held'
  BY <1>0, <1>3, <1>4, <1>7 DEF Held
<1>8. QED BY <1>5, <1>6, <1>7

\* A topic given up is in no slot any more, and the others stay.
LEMMA UnsubscribeSlots ==
  ASSUME ClientAssumption, TypeOK, OneSlotPerTopic, NEW t \in Topic, MqttUnsubscribe(t)
  PROVE  /\ OneSlotPerTopic'
         /\ \A u \in Topic : u \in Held' <=> (u \in Held /\ u # t)
<1>0. subs \in [1..MaxSubs -> Names \cup {NoTopic}] /\ NoTopic \notin Names
      /\ Topic \subseteq Names
  BY DEF TypeOK, ClientAssumption, Names
<1>1. CASE SlotsOf(t) = {}
  <2>1. subs' = subs
    BY <1>1 DEF MqttUnsubscribe
  <2>2. t \notin Held
    BY <1>1 DEF SlotsOf, Held
  <2>3. QED BY <2>1, <2>2 DEF OneSlotPerTopic, Held
<1>2. CASE SlotsOf(t) # {}
  <2>1. PICK i \in SlotsOf(t) : TRUE
    BY <1>2
  <2>2. i \in 1..MaxSubs /\ subs[i] = t /\ \A j \in SlotsOf(t) : j = i
    BY <1>0, <2>1 DEF SlotsOf, OneSlotPerTopic
  <2>3. (CHOOSE k \in SlotsOf(t) : \A j \in SlotsOf(t) : k <= j) = i
    <3>1. i <= i
      BY <2>2 DEF ClientAssumption
    <3>2. \E k \in SlotsOf(t) : \A j \in SlotsOf(t) : k <= j
      BY <2>1, <2>2, <3>1
    <3>3. (CHOOSE k \in SlotsOf(t) : \A j \in SlotsOf(t) : k <= j) \in SlotsOf(t)
      BY <3>2, Zenon
    <3>4. QED BY <2>2, <3>3, Zenon
  <2>4. subs' = [subs EXCEPT ![i] = NoTopic]
    BY <1>2, <2>3 DEF MqttUnsubscribe
  <2>5. /\ DOMAIN subs' = DOMAIN subs /\ DOMAIN subs = 1..MaxSubs
        /\ subs'[i] = NoTopic
        /\ \A j \in 1..MaxSubs : j # i => subs'[j] = subs[j] /\ subs[j] # t
    BY <1>0, <2>2, <2>4 DEF SlotsOf
  <2>6. OneSlotPerTopic'
    BY <1>0, <2>5 DEF OneSlotPerTopic
  <2>7. ASSUME NEW u \in Topic
        PROVE  u \in Held' <=> (u \in Held /\ u # t)
    <3>1. u # NoTopic
      BY <1>0
    <3>2. u \in Held' <=> \E j \in 1..MaxSubs : subs'[j] = u
      BY <2>5, <3>1 DEF Held
    <3>3. u \in Held <=> \E j \in 1..MaxSubs : subs[j] = u
      BY <2>5, <3>1 DEF Held
    <3>4. QED BY <2>2, <2>5, <3>1, <3>2, <3>3
  <2>8. QED BY <2>6, <2>7
<1>3. QED BY <1>1, <1>2

LEMMA TopicsStep ==
  ASSUME ClientAssumption, TypeOK, OneSlotPerTopic, ProxyKnowsTopics, [Next]_vars
  PROVE  OneSlotPerTopic' /\ ProxyKnowsTopics'
<1>0. NoTopic \notin Topic
  BY DEF ClientAssumption, Names
<1>1. ASSUME UNCHANGED subs, UNCHANGED <<state, told>> \/ state' # "CONNECTED" \/ told' = Held
      PROVE  OneSlotPerTopic' /\ ProxyKnowsTopics'
  BY <1>1 DEF OneSlotPerTopic, ProxyKnowsTopics, Held
<1>2. CASE HearBeacon \/ HandshakeTimeout
  BY <1>1, <1>2 DEF HearBeacon, HandshakeTimeout, StartDiscovery
<1>3. CASE DiscoveryTimeout
  BY <1>1, <1>3 DEF DiscoveryTimeout, StartDiscovery, InitiateHandshake, GenerationFails
<1>4. CASE OnFrameReceived
  BY <1>1, <1>4 DEF OnFrameReceived, HandleOffer, HandleReply, HandleConfirm, ResubscribeAll,
                    Ignore, AgreementFails, StartDiscovery, client
<1>5. CASE Restart
  <2>1. subs' = [i \in 1..MaxSubs |-> NoTopic] /\ state' # "CONNECTED"
    BY <1>5 DEF Restart, StartDiscovery
  <2>2. QED BY <1>0, <2>1 DEF OneSlotPerTopic, ProxyKnowsTopics
<1>6. ASSUME NEW t \in Topic, MqttSubscribe(t)
      PROVE  OneSlotPerTopic' /\ ProxyKnowsTopics'
  <2>1. state' = state /\ (state = "CONNECTED" => told' = told \cup {t})
    BY <1>6 DEF MqttSubscribe
  <2>2. QED BY <1>6, <2>1, SubscribeSlots DEF ProxyKnowsTopics
<1>7. ASSUME NEW t \in Topic, MqttUnsubscribe(t)
      PROVE  OneSlotPerTopic' /\ ProxyKnowsTopics'
  <2>1. state' = state /\ (state = "CONNECTED" => told' = told \ {t})
    BY <1>7 DEF MqttUnsubscribe
  <2>2. QED BY <1>7, <2>1, UnsubscribeSlots DEF ProxyKnowsTopics
<1>8. QED
  BY <1>1, <1>2, <1>3, <1>4, <1>5, <1>6, <1>7
     DEF Next, ProxyReceives, Lose, Forget, client, vars

\* Whenever the application subscribes and unsubscribes, a connected client has
\* told its proxy of just the topics it holds.
THEOREM ClientProxyKnowsTopics == Spec => []ProxyKnowsTopics
<1>1. Init => TypeOK
  BY InitType, ClientAssumption
<1>2. Init => OneSlotPerTopic /\ ProxyKnowsTopics
  BY ClientAssumption DEF Init, OneSlotPerTopic, ProxyKnowsTopics, ClientAssumption, Names
<1>3. TypeOK /\ OneSlotPerTopic /\ ProxyKnowsTopics /\ [Next]_vars
         => (TypeOK /\ OneSlotPerTopic /\ ProxyKnowsTopics)'
  BY TypeStep, TopicsStep, ClientAssumption
<1>4. QED BY <1>1, <1>2, <1>3, PTL DEF Spec
=============================================================================
