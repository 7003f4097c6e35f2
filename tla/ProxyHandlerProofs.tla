-------------------------- MODULE ProxyHandlerProofs --------------------------
(* Theorems about ProxyHandler.tla, for every set of clients and topics,    *)
(* every table size and every interleaving of the two tasks.                *)
EXTENDS ProxyHandler, TLAPS

-----------------------------------------------------------------------------
(* The inductive invariants.                                                *)

\* A request of the receiving task that is under way is for a slot, and one to
\* clear a slot has no topic.
RequestOK ==
    /\ rx.op # "none" => rx.slot \in Slot
    /\ rx.op = "clear" => rx.topic = NoTopic
    /\ rx.op \in {"subscribe", "unsubscribe"} => rx.topic \in Topic

\* The loop that forwards is over, or at a slot with a topic.
LoopOK == fwd = NoMessage \/ (fwd.slot \in Slot /\ fwd.topic \in Published)

\* The broker has, or had, the topics of every client, but for those one of the
\* tasks has still to tell it: the subscription under way, the slots the loop on
\* MQTT_EVENT_CONNECTED has not come to, and what a new client's slot still
\* holds of the last one.
CoveredOrPending ==
    (up /\ connected) =>
        \A i \in Slot : clients[i].connected => \A t \in Stored(clients[i]) :
            \/ t \in broker \cup taken
            \/ rx.op = "subscribe" /\ rx.topic = t
            \/ rx.op = "clear" /\ rx.slot = i
            \/ resub # 0 /\ resub <= i

\* A slot whose client is subscribed to the message of the loop.
Holding(i, t) == clients[i].connected /\ \E f \in Stored(clients[i]) : t \in Covers[f]

\* Who is still owed the message has a slot that the loop has not passed.
OwedAhead ==
    /\ ForwardedToAll
    /\ fwd # NoMessage => \A m \in owed : \E i \in Slot :
          /\ fwd.slot <= i
          /\ clients[i].mac = m
          /\ Holding(i, fwd.topic)

\* A slot in use has a client.
SlotOK == \A i \in Slot : clients[i].connected => clients[i].mac \in Mac

TypeInv == TypeOK /\ RequestOK /\ LoopOK /\ SlotOK

-----------------------------------------------------------------------------
(* The subscriptions of a slot.                                             *)

Subs == SeqOf(Topic \cup {NoTopic}, MaxSubs)

\* A slot's subscriptions are a sequence with a bounded length.
LEMMA SubsIsSeq ==
  ASSUME ProxyAssumption
  PROVE  \A s : s \in Subs <=> s \in Seq(Topic \cup {NoTopic}) /\ Len(s) <= MaxSubs
<1>1. ASSUME NEW s \in Subs
      PROVE  s \in Seq(Topic \cup {NoTopic}) /\ Len(s) <= MaxSubs
  <2>1. PICK n \in 0..MaxSubs : s \in [1..n -> Topic \cup {NoTopic}]
    BY DEF Subs, SeqOf
  <2>2. n \in Nat /\ n <= MaxSubs
    BY DEF ProxyAssumption
  <2>3. QED BY <2>1, <2>2
<1>2. ASSUME NEW s \in Seq(Topic \cup {NoTopic}), Len(s) <= MaxSubs
      PROVE  s \in Subs
  <2>1. Len(s) \in 0..MaxSubs /\ s \in [1..Len(s) -> Topic \cup {NoTopic}]
    BY <1>2 DEF ProxyAssumption
  <2>2. QED BY <2>1 DEF Subs, SeqOf
<1>3. QED BY <1>1, <1>2

\* Storing a topic keeps to the limit and adds no other topic.
LEMMA StoreFacts ==
  ASSUME ProxyAssumption, NEW s \in Subs, NEW t \in Topic
  PROVE  Store(s, t) \in Subs /\ ToSet(Store(s, t)) \subseteq ToSet(s) \cup {t}
<1>1. s \in Seq(Topic \cup {NoTopic}) /\ Len(s) <= MaxSubs
  BY SubsIsSeq
<1>2. CASE Len(s) < MaxSubs
  <2>1. Append(s, t) \in Seq(Topic \cup {NoTopic}) /\ Len(Append(s, t)) <= MaxSubs
    BY <1>1, <1>2 DEF ProxyAssumption
  <2>2. ToSet(Append(s, t)) \subseteq ToSet(s) \cup {t}
    BY <1>1 DEF ToSet
  <2>3. QED BY <1>2, <2>1, <2>2, SubsIsSeq DEF Store
<1>3. CASE ~(Len(s) < MaxSubs)
  BY <1>3 DEF Store
<1>4. QED BY <1>2, <1>3

\* Blanking an entry keeps the length and adds no topic.
LEMMA BlankFacts ==
  ASSUME ProxyAssumption, NEW s \in Subs, NEW t
  PROVE  Blank(s, t) \in Subs /\ ToSet(Blank(s, t)) \subseteq ToSet(s) \cup {NoTopic}
<1>1. s \in Seq(Topic \cup {NoTopic}) /\ Len(s) <= MaxSubs
  BY SubsIsSeq
<1>2. ASSUME NEW k
      PROVE  /\ [s EXCEPT ![k] = NoTopic] \in Subs
             /\ ToSet([s EXCEPT ![k] = NoTopic]) \subseteq ToSet(s) \cup {NoTopic}
  <2> DEFINE b == [s EXCEPT ![k] = NoTopic]
  <2>0. Len(s) \in Nat /\ s \in [1..Len(s) -> Topic \cup {NoTopic}]
    BY <1>1
  <2>4. b \in [1..Len(s) -> Topic \cup {NoTopic}]
    BY <2>0
  <2>1. b \in Seq(Topic \cup {NoTopic}) /\ Len(b) = Len(s)
    BY <2>0, <2>4
  <2>2. \A i \in DOMAIN b : b[i] = NoTopic \/ (i \in DOMAIN s /\ b[i] = s[i])
    BY <1>1
  <2>3. QED BY <1>1, <2>1, <2>2, SubsIsSeq DEF ToSet
<1>3. Blank(s, t) = s \/ \E k : Blank(s, t) = [s EXCEPT ![k] = NoTopic]
  BY Zenon DEF Blank
<1>4. QED BY <1>2, <1>3

-----------------------------------------------------------------------------
(* Type correctness.                                                        *)

Client == [mac : Mac \cup {NoMac}, connected : BOOLEAN, subs : Subs]

\* The topics of a slot are topics.
LEMMA StoredType ==
  ASSUME ProxyAssumption, NEW c \in Client
  PROVE  Stored(c) \subseteq Topic
<1>1. c.subs \in Seq(Topic \cup {NoTopic})
  BY SubsIsSeq DEF Client
<1>2. ToSet(c.subs) \subseteq Topic \cup {NoTopic}
  BY <1>1 DEF ToSet
<1>3. QED BY <1>2 DEF Stored

\* The table, and the receiving task's request, keep their types when a frame of
\* a client is handled.
LEMMA ReceiveType ==
  ASSUME ProxyAssumption, TypeInv, Receive
  PROVE  /\ clients' \in [Slot -> Client] /\ SlotOK'
         /\ rx' \in [op : {"none", "clear", "subscribe", "unsubscribe", "remove"},
                     slot : 0..MaxClients, topic : Topic \cup {NoTopic}]
         /\ RequestOK'
         /\ asked' \in [Mac -> SUBSET Topic]
         /\ broker' \subseteq Topic /\ taken' \subseteq Topic
         /\ UNCHANGED <<connected, resub, up>>
<1>0. /\ clients \in [Slot -> Client] /\ Slot \subseteq 0..MaxClients
      /\ SlotOK /\ RequestOK
      /\ rx \in [op : {"none", "clear", "subscribe", "unsubscribe", "remove"},
                     slot : 0..MaxClients, topic : Topic \cup {NoTopic}]
      /\ asked \in [Mac -> SUBSET Topic]
      /\ broker \subseteq Topic /\ taken \subseteq Topic
  <2>1. clients \in [Slot -> Client]
    BY DEF TypeInv, TypeOK, Client, Subs
  <2>2. Slot \subseteq 0..MaxClients
    BY DEF Slot, ProxyAssumption
  <2>3. QED BY <2>1, <2>2 DEF TypeInv, TypeOK
<1>1. << >> \in Subs
  <2>1. 0 \in 0..MaxSubs /\ << >> \in [1..0 -> Topic \cup {NoTopic}]
    BY DEF ProxyAssumption
  <2>2. QED BY <2>1 DEF Subs, SeqOf
<1> DEFINE Goal == /\ clients' \in [Slot -> Client] /\ SlotOK'
                   /\ rx' \in [op : {"none", "clear", "subscribe", "unsubscribe", "remove"},
                               slot : 0..MaxClients, topic : Topic \cup {NoTopic}]
                   /\ RequestOK'
                   /\ asked' \in [Mac -> SUBSET Topic]
                   /\ broker' \subseteq Topic /\ taken' \subseteq Topic
                   /\ UNCHANGED <<connected, resub, up>>
<1>2. ASSUME NEW m \in Mac, HandleConnect(m)
      PROVE  Goal
  <2>1. PICK i \in Slot : /\ clients' = [clients EXCEPT ![i] = NewClient(i, m)]
                          /\ rx' = [op |-> "clear", slot |-> i, topic |-> NoTopic]
    BY <1>2 DEF HandleConnect, FreeSlots
  <2>2. NewClient(i, m) \in Client /\ NewClient(i, m).mac \in Mac
    <3>1. clients[i] \in Client
      BY <1>0
    <3>2. QED BY <3>1 DEF NewClient, Client
  <2>3. clients' \in [Slot -> Client] /\ SlotOK'
    BY <1>0, <2>1, <2>2 DEF SlotOK
  <2>4. QED BY <1>0, <1>2, <2>1, <2>3 DEF HandleConnect, RequestOK
<1>3. ASSUME NEW m \in Mac, HandleDisconnect(m)
      PROVE  Goal
  <2>1. PICK i \in Slot : /\ IF connected THEN Unsubscribe(Stored(clients[i]))
                             ELSE UNCHANGED <<broker, taken>>
                          /\ rx' = [op |-> "remove", slot |-> i, topic |-> NoTopic]
    BY <1>3 DEF HandleDisconnect, FindClient
  <2>2. Stored(clients[i]) \subseteq Topic
    BY <1>0, StoredType
  <2>3. broker' \subseteq Topic /\ taken' \subseteq Topic
    BY <1>0, <2>1, <2>2 DEF Unsubscribe
  <2>4. QED BY <1>0, <1>3, <2>1, <2>3 DEF HandleDisconnect, RequestOK, SlotOK
<1>4. ASSUME NEW m \in Mac, NEW t \in Topic, HandleSubscribe(m, t)
      PROVE  Goal
  <2>1. PICK i \in Slot : /\ clients' = [clients EXCEPT ![i].subs = Store(clients[i].subs, t)]
                          /\ rx' = [op |-> "subscribe", slot |-> i, topic |-> t]
    BY <1>4 DEF HandleSubscribe, FindClient
  <2>2. Store(clients[i].subs, t) \in Subs
    BY <1>0, StoreFacts DEF Client
  <2>3. clients' \in [Slot -> Client] /\ SlotOK'
    BY <1>0, <2>1, <2>2 DEF SlotOK, Client
  <2>4. QED BY <1>0, <1>4, <2>1, <2>3 DEF HandleSubscribe, RequestOK
<1>5. ASSUME NEW m \in Mac, NEW t \in Topic, HandleUnsubscribe(m, t)
      PROVE  Goal
  <2>1. PICK i \in Slot : /\ clients' = [clients EXCEPT ![i].subs = Blank(clients[i].subs, t)]
                          /\ rx' = [op |-> "unsubscribe", slot |-> i, topic |-> t]
    BY <1>5 DEF HandleUnsubscribe, FindClient
  <2>2. Blank(clients[i].subs, t) \in Subs
    BY <1>0, BlankFacts DEF Client
  <2>3. clients' \in [Slot -> Client] /\ SlotOK'
    BY <1>0, <2>1, <2>2 DEF SlotOK, Client
  <2>4. QED BY <1>0, <1>5, <2>1, <2>3 DEF HandleUnsubscribe, RequestOK
<1>6. ASSUME ClearSlot
      PROVE  Goal
  <2>1. rx.slot \in Slot
    BY <1>0, <1>6 DEF ClearSlot, RequestOK
  <2>2. ClearSubs(rx.slot) \in Client /\ ClearSubs(rx.slot).mac = clients[rx.slot].mac
        /\ ClearSubs(rx.slot).connected = clients[rx.slot].connected
    BY <1>0, <1>1, <2>1 DEF ClearSubs, Client
  <2>3. clients' \in [Slot -> Client] /\ SlotOK'
    BY <1>0, <1>6, <2>1, <2>2 DEF ClearSlot, SlotOK
  <2>4. QED BY <1>0, <1>6, <2>3 DEF ClearSlot, RequestOK, NoRequest
<1>7. ASSUME TellBroker
      PROVE  Goal
  <2>1. rx.topic \in Topic
    BY <1>0, <1>7 DEF TellBroker, RequestOK
  <2>2. broker' \subseteq Topic /\ taken' \subseteq Topic
    BY <1>0, <1>7, <2>1 DEF TellBroker, Subscribe, Unsubscribe
  <2>3. QED BY <1>0, <1>7, <2>2 DEF TellBroker, RequestOK, NoRequest, SlotOK
<1>8. ASSUME RemoveClient
      PROVE  Goal
  <2>1. rx.slot \in Slot
    BY <1>0, <1>8 DEF RemoveClient, RequestOK
  <2>3. [clients[rx.slot] EXCEPT !.connected = FALSE] \in Client
    <3>1. clients[rx.slot] \in Client
      BY <1>0, <2>1
    <3>2. QED BY <3>1 DEF Client
  <2>4. clients' = [clients EXCEPT ![rx.slot] = [clients[rx.slot] EXCEPT !.connected = FALSE]]
    BY <1>0, <1>8, <2>1 DEF RemoveClient, Client
  <2>5. [clients[rx.slot] EXCEPT !.connected = FALSE].connected = FALSE
    BY <1>0, <2>1 DEF Client
  <2>6. clients' \in [Slot -> Client] /\ SlotOK'
    BY <1>0, <2>1, <2>3, <2>4, <2>5 DEF SlotOK
  <2>7. QED BY <1>0, <1>8, <2>6 DEF RemoveClient, RequestOK, NoRequest
<1>9. QED BY <1>2, <1>3, <1>4, <1>5, <1>6, <1>7, <1>8 DEF Receive

\* The loop on MQTT_EVENT_DATA stays at a slot of the table.
LEMMA ForwardType ==
  ASSUME ProxyAssumption, TypeInv, Forward
  PROVE  /\ fwd' \in [topic : Published \cup {NoTopic}, slot : 0..MaxClients, match : BOOLEAN]
         /\ LoopOK'
<1>0. /\ fwd \in [topic : Published \cup {NoTopic}, slot : 0..MaxClients, match : BOOLEAN]
      /\ LoopOK /\ MaxClients \in Nat \ {0}
  BY DEF TypeInv, TypeOK, ProxyAssumption
<1>1. ASSUME NEW t \in Published, MqttMessage(t)
      PROVE  fwd' \in [topic : Published \cup {NoTopic}, slot : 0..MaxClients, match : BOOLEAN]
             /\ LoopOK'
  BY <1>0, <1>1 DEF MqttMessage, LoopOK, Slot
<1>2. ASSUME fwd # NoMessage
      PROVE  /\ NextSlot \in [topic : Published \cup {NoTopic}, slot : 0..MaxClients,
                              match : BOOLEAN]
             /\ NextSlot = NoMessage \/ (NextSlot.slot \in Slot /\ NextSlot.topic \in Published)
  <2>1. fwd.slot \in Slot /\ fwd.topic \in Published
    BY <1>0, <1>2 DEF LoopOK
  <2>2. CASE fwd.slot = MaxClients
    BY <1>0, <2>2 DEF NextSlot, NoMessage
  <2>3. CASE fwd.slot # MaxClients
    <3>1. fwd.slot + 1 \in Slot
      BY <1>0, <2>1, <2>3 DEF Slot
    <3>2. NextSlot = [fwd EXCEPT !.slot = fwd.slot + 1, !.match = FALSE]
      BY <2>3 DEF NextSlot
    <3>3. NextSlot = [topic |-> fwd.topic, slot |-> fwd.slot + 1, match |-> FALSE]
      BY <1>0, <3>2
    <3>4. fwd.slot + 1 \in 0..MaxClients
      BY <1>0, <3>1 DEF Slot
    <3>5. QED BY <2>1, <3>1, <3>3, <3>4
  <2>4. QED BY <2>2, <2>3
<1>3. CASE MatchClient
  <2>1. fwd # NoMessage /\ fwd.slot \in Slot /\ fwd.topic \in Published
    BY <1>0, <1>3 DEF MatchClient, LoopOK
  <2>2. CASE fwd' = [fwd EXCEPT !.match = TRUE]
    BY <1>0, <2>1, <2>2 DEF LoopOK
  <2>3. CASE fwd' = NextSlot
    BY <1>2, <2>1, <2>3 DEF LoopOK
  <2>4. QED BY <1>3, <2>2, <2>3 DEF MatchClient
<1>4. CASE ForwardMessage
  <2>1. fwd # NoMessage
    BY <1>4 DEF ForwardMessage, NoMessage
  <2>2. QED BY <1>2, <1>4, <2>1 DEF ForwardMessage, AfterSend, LoopOK
<1>5. QED BY <1>1, <1>3, <1>4 DEF Forward

\* Holders are clients.
LEMMA HoldersType ==
  ASSUME NEW cs, NEW t, \A i \in Slot : cs[i].connected => cs[i].mac \in Mac
  PROVE  Holders(cs, t) \subseteq Mac
BY DEF Holders

\* Every step keeps the types.
LEMMA TypeStep == ProxyAssumption /\ TypeInv /\ [Next]_vars => TypeInv'
<1> SUFFICES ASSUME ProxyAssumption, TypeInv, [Next]_vars
             PROVE  TypeInv'
  OBVIOUS
<1>0. CASE UNCHANGED vars
  BY <1>0 DEF vars, TypeInv, TypeOK, RequestOK, LoopOK, SlotOK
<1> USE DEF TypeInv
<1>1. ASSUME Receive, UNCHANGED fwd, owed' \subseteq Mac
      PROVE  TypeInv'
  <2>1. clients' \in [Slot -> [mac : Mac \cup {NoMac}, connected : BOOLEAN,
                               subs : SeqOf(Topic \cup {NoTopic}, MaxSubs)]]
    BY <1>1, ReceiveType DEF Client, Subs
  <2>2. QED BY <1>1, <2>1, ReceiveType DEF TypeOK, LoopOK
<1>2. ASSUME Connected \/ Resubscribe \/ Disconnected \/ SessionLost \/ SessionBegins,
             UNCHANGED fwd, owed' \subseteq Mac
      PROVE  TypeInv'
  <2>1. resub' \in 0..MaxClients /\ broker' \subseteq Topic /\ taken' \subseteq Topic
    <3>1. CASE Resubscribe
      <4>1. resub \in Slot
        BY <3>1 DEF Resubscribe, TypeOK, Slot
      <4>2. Again(resub) \subseteq Topic
        BY <4>1, StoredType DEF Again, TypeOK, Client, Subs
      <4>3. resub' \in 0..MaxClients
        BY <3>1, <4>1 DEF Resubscribe, Slot, ProxyAssumption
      <4>4. QED BY <3>1, <4>2, <4>3 DEF Resubscribe, Subscribe, TypeOK
    <3>2. CASE ~Resubscribe
      BY <1>2, <3>2 DEF Connected, Disconnected, SessionLost, SessionBegins, TypeOK, ProxyAssumption
    <3>3. QED BY <3>1, <3>2
  <2>2. connected' \in BOOLEAN /\ up' \in BOOLEAN /\ UNCHANGED <<clients, rx, asked>>
    BY <1>2 DEF Connected, Resubscribe, Disconnected, SessionLost, SessionBegins, TypeOK
  <2>3. QED BY <1>2, <2>1, <2>2 DEF TypeOK, RequestOK, LoopOK, SlotOK
<1>3. ASSUME Forward, UNCHANGED <<clients, connected, rx, resub, up, broker, taken, asked>>,
             owed' \subseteq Mac
      PROVE  TypeInv'
  BY <1>3, ForwardType DEF TypeOK, RequestOK, SlotOK
<1>4. ASSUME Owe
      PROVE  owed' \subseteq Mac
  <2>1. Holders(clients, fwd'.topic) \subseteq Mac
    BY HoldersType DEF SlotOK
  <2>2. QED BY <1>4, <2>1 DEF Owe, TypeOK
<1>5. QED BY <1>0, <1>1, <1>2, <1>3, <1>4 DEF Next

\* They hold initially.
LEMMA InitType == ProxyAssumption /\ Init => TypeInv
<1> SUFFICES ASSUME ProxyAssumption
             PROVE  Init => TypeInv
  OBVIOUS
<1>1. << >> \in SeqOf(Topic \cup {NoTopic}, MaxSubs)
  <2>1. 0 \in 0..MaxSubs /\ << >> \in [1..0 -> Topic \cup {NoTopic}]
    BY DEF ProxyAssumption
  <2>2. QED BY <2>1 DEF SeqOf
<1>2. 0 \in 0..MaxClients
  BY DEF ProxyAssumption
<1>3. Init => TypeOK
  <2>1. NoMessage \in [topic : Published \cup {NoTopic}, slot : 0..MaxClients, match : BOOLEAN]
    BY <1>2 DEF NoMessage
  <2>2. NoRequest \in [op : {"none", "clear", "subscribe", "unsubscribe", "remove"},
                       slot : 0..MaxClients, topic : Topic \cup {NoTopic}]
    BY <1>2 DEF NoRequest
  <2>3. Init => clients \in [Slot -> [mac : Mac \cup {NoMac}, connected : BOOLEAN,
                                      subs : SeqOf(Topic \cup {NoTopic}, MaxSubs)]]
    BY <1>1 DEF Init
  <2>4. QED BY <1>2, <2>1, <2>2, <2>3 DEF Init, TypeOK
<1>4. Init => RequestOK /\ LoopOK /\ SlotOK
  BY DEF Init, RequestOK, LoopOK, SlotOK, NoRequest
<1>5. QED BY <1>3, <1>4 DEF TypeInv

\* The proxy keeps its types.
THEOREM ProxyTypeCorrect == Spec => []TypeOK
<1>1. Init => TypeInv
  BY InitType, ProxyAssumption
<1>2. TypeInv /\ [Next]_vars => TypeInv'
  BY TypeStep, ProxyAssumption
<1>3. TypeInv => TypeOK
  BY DEF TypeInv
<1>4. QED BY <1>1, <1>2, <1>3, PTL DEF Spec

-----------------------------------------------------------------------------
(* A client has one slot.                                                   *)

\* The client of a slot stays, or leaves, but for the one step that gives a free
\* slot to a client that has none.
LEMMA SlotsKept ==
  ASSUME ProxyAssumption, TypeInv, [Next]_vars
  PROVE  \/ \A j \in Slot : clients'[j].connected =>
               clients[j].connected /\ clients'[j].mac = clients[j].mac
         \/ \E m \in Mac, i \in Slot :
               /\ FindClient(m) = {}
               /\ clients' = [clients EXCEPT ![i] = NewClient(i, m)]
<1> DEFINE Kept == \A j \in Slot : clients'[j].connected =>
                       clients[j].connected /\ clients'[j].mac = clients[j].mac
<1>0. clients \in [Slot -> Client] /\ RequestOK
  BY DEF TypeInv, TypeOK, Client, Subs
<1>1. ASSUME NEW m \in Mac, HandleConnect(m)
      PROVE  \E i \in Slot : /\ FindClient(m) = {}
                             /\ clients' = [clients EXCEPT ![i] = NewClient(i, m)]
  BY <1>1 DEF HandleConnect, FreeSlots
<1>2. ASSUME NEW m \in Mac, NEW t \in Topic, HandleSubscribe(m, t)
      PROVE  Kept
  BY <1>0, <1>2 DEF HandleSubscribe, FindClient, Client
<1>3. ASSUME NEW m \in Mac, NEW t \in Topic, HandleUnsubscribe(m, t)
      PROVE  Kept
  BY <1>0, <1>3 DEF HandleUnsubscribe, FindClient, Client
<1>4. CASE ClearSlot
  <2>1. rx.slot \in Slot
    BY <1>0, <1>4 DEF ClearSlot, RequestOK
  <2>2. Kept
    BY <1>0, <1>4, <2>1 DEF ClearSlot, ClearSubs, Client
  <2>3. QED BY <2>2
<1>5. CASE RemoveClient
  <2>1. rx.slot \in Slot
    BY <1>0, <1>5 DEF RemoveClient, RequestOK
  <2>2. Kept
    BY <1>0, <1>5, <2>1 DEF RemoveClient, Client
  <2>3. QED BY <2>2
<1>6. CASE UNCHANGED clients
  <2>1. Kept
    BY <1>6
  <2>2. QED BY <2>1
<1>7. QED
  BY <1>1, <1>2, <1>3, <1>4, <1>5, <1>6
     DEF Next, Receive, Forward, HandleDisconnect, TellBroker, Connected, Resubscribe,
         Disconnected, SessionLost, SessionBegins, vars

\* So a client that has a slot is in no other.
LEMMA OneSlotStep ==
  ASSUME ProxyAssumption, TypeInv, OneSlotPerClient, [Next]_vars
  PROVE  /\ OneSlotPerClient'
         /\ \A i, j \in Slot :
               /\ clients[i].connected
               /\ clients'[j].connected /\ clients'[j].mac = clients[i].mac
               => i = j
<1>0. clients \in [Slot -> Client]
  BY DEF TypeInv, TypeOK, Client, Subs
<1>1. CASE \A j \in Slot : clients'[j].connected =>
               clients[j].connected /\ clients'[j].mac = clients[j].mac
  BY <1>1 DEF OneSlotPerClient
<1>2. ASSUME NEW m \in Mac, NEW k \in Slot, FindClient(m) = {},
             clients' = [clients EXCEPT ![k] = NewClient(k, m)]
      PROVE  /\ OneSlotPerClient'
             /\ \A i, j \in Slot :
                   /\ clients[i].connected
                   /\ clients'[j].connected /\ clients'[j].mac = clients[i].mac
                   => i = j
  <2>1. \A j \in Slot : j # k => clients'[j] = clients[j]
    BY <1>0, <1>2
  <2>2. clients'[k].mac = m
    BY <1>0, <1>2 DEF NewClient, Client
  <2>3. \A j \in Slot : clients[j].connected => clients[j].mac # m
    BY <1>2 DEF FindClient
  <2>4. QED BY <2>1, <2>2, <2>3 DEF OneSlotPerClient
<1>3. QED BY <1>1, <1>2, SlotsKept

\* A client never has two slots of the table.
THEOREM ProxyOneSlot == Spec => []OneSlotPerClient
<1>1. Init => TypeInv
  BY InitType, ProxyAssumption
<1>2. Init => OneSlotPerClient
  BY DEF Init, OneSlotPerClient
<1>3. TypeInv /\ OneSlotPerClient /\ [Next]_vars => TypeInv' /\ OneSlotPerClient'
  BY TypeStep, OneSlotStep, ProxyAssumption
<1>4. QED BY <1>1, <1>2, <1>3, PTL DEF Spec

-----------------------------------------------------------------------------
(* A slot holds what its client subscribed to.                              *)

LEMMA AskedStep ==
  ASSUME ProxyAssumption, TypeInv, OneSlotPerClient, StoredWasAsked, [Next]_vars
  PROVE  StoredWasAsked'
<1>0. /\ clients \in [Slot -> Client] /\ RequestOK /\ asked \in [Mac -> SUBSET Topic]
      /\ \A i \in Slot : clients[i].connected => clients[i].mac \in Mac
  BY DEF TypeInv, TypeOK, Client, Subs, SlotOK
<1>1. ASSUME NEW m \in Mac, HandleConnect(m)
      PROVE  StoredWasAsked'
  <2>1. PICK k \in FreeSlots(m) :
              /\ clients' = [clients EXCEPT ![k] = NewClient(k, m)]
              /\ rx' = [op |-> "clear", slot |-> k, topic |-> NoTopic]
    BY <1>1 DEF HandleConnect
  <2>2. rx = NoRequest /\ asked' = [asked EXCEPT ![m] = {}]
    BY <1>1 DEF HandleConnect
  <2>3. SUFFICES ASSUME NEW i \in Slot, clients'[i].connected, i # k
                 PROVE  Stored(clients'[i]) \subseteq asked'[clients'[i].mac]
    BY <2>1 DEF StoredWasAsked
  <2>4. clients'[i] = clients[i] /\ clients[i].connected
    BY <1>0, <2>1, <2>3
  <2>5. clients[i].mac \in Mac \ {m}
    BY <1>0, <2>1, <2>4 DEF FreeSlots, FindClient
  <2>6. Stored(clients[i]) \subseteq asked[clients[i].mac]
    BY <2>2, <2>4 DEF StoredWasAsked, NoRequest
  <2>7. QED BY <1>0, <2>2, <2>4, <2>5, <2>6
<1>2. ASSUME NEW m \in Mac, NEW t \in Topic, HandleSubscribe(m, t)
      PROVE  StoredWasAsked'
  <2>1. PICK k \in FindClient(m) :
              clients' = [clients EXCEPT ![k].subs = Store(clients[k].subs, t)]
    BY <1>2 DEF HandleSubscribe
  <2>2. rx = NoRequest /\ asked' = [asked EXCEPT ![m] = asked[m] \cup {t}]
    BY <1>2 DEF HandleSubscribe
  <2>3. SUFFICES ASSUME NEW i \in Slot, clients'[i].connected
                 PROVE  Stored(clients'[i]) \subseteq asked'[clients'[i].mac]
    BY DEF StoredWasAsked
  <2>4. /\ clients[i].connected /\ clients'[i].mac = clients[i].mac
        /\ i # k => clients'[i].subs = clients[i].subs
        /\ i = k => clients'[i].subs = Store(clients[i].subs, t) /\ clients[i].mac = m
    BY <1>0, <2>1, <2>3 DEF FindClient, Client
  <2>5. Stored(clients[i]) \subseteq asked[clients[i].mac]
    BY <2>2, <2>4 DEF StoredWasAsked, NoRequest
  <2>6. i = k => ToSet(Store(clients[i].subs, t)) \subseteq ToSet(clients[i].subs) \cup {t}
    BY <1>0, StoreFacts DEF Client
  <2>7. QED BY <1>0, <2>2, <2>4, <2>5, <2>6 DEF Stored
<1>3. ASSUME NEW m \in Mac, NEW t \in Topic, HandleUnsubscribe(m, t)
      PROVE  StoredWasAsked'
  <2>1. PICK k \in FindClient(m) :
              clients' = [clients EXCEPT ![k].subs = Blank(clients[k].subs, t)]
    BY <1>3 DEF HandleUnsubscribe
  <2>2. rx = NoRequest /\ asked' = asked
    BY <1>3 DEF HandleUnsubscribe
  <2>3. SUFFICES ASSUME NEW i \in Slot, clients'[i].connected
                 PROVE  Stored(clients'[i]) \subseteq asked'[clients'[i].mac]
    BY DEF StoredWasAsked
  <2>4. /\ clients[i].connected /\ clients'[i].mac = clients[i].mac
        /\ i # k => clients'[i].subs = clients[i].subs
        /\ i = k => clients'[i].subs = Blank(clients[i].subs, t)
    BY <1>0, <2>1, <2>3 DEF FindClient, Client
  <2>5. Stored(clients[i]) \subseteq asked[clients[i].mac]
    BY <2>2, <2>4 DEF StoredWasAsked, NoRequest
  <2>6. i = k => ToSet(Blank(clients[i].subs, t)) \subseteq ToSet(clients[i].subs) \cup {NoTopic}
    BY <1>0, BlankFacts DEF Client
  <2>7. QED BY <2>2, <2>4, <2>5, <2>6 DEF Stored
<1>4. CASE ClearSlot
  <2>1. rx.slot \in Slot /\ rx.op = "clear" /\ rx.topic = NoTopic
    BY <1>0, <1>4 DEF ClearSlot, RequestOK
  <2>2. SUFFICES ASSUME NEW i \in Slot, clients'[i].connected
                 PROVE  Stored(clients'[i]) \subseteq asked'[clients'[i].mac]
    BY DEF StoredWasAsked
  <2>3. CASE i = rx.slot
    <3>1. clients'[i].subs = << >>
      BY <1>0, <1>4, <2>1, <2>3 DEF ClearSlot, ClearSubs, Client
    <3>2. QED BY <3>1 DEF Stored, ToSet
  <2>4. CASE i # rx.slot
    <3>1. clients'[i] = clients[i] /\ asked' = asked
      BY <1>0, <1>4, <2>1, <2>4 DEF ClearSlot
    <3>2. QED BY <2>2, <2>4, <3>1 DEF StoredWasAsked
  <2>5. QED BY <2>3, <2>4
<1>5. CASE RemoveClient
  <2>1. rx.slot \in Slot /\ rx.op = "remove"
    BY <1>0, <1>5 DEF RemoveClient, RequestOK
  <2>2. \A i \in Slot : clients'[i].connected => clients'[i] = clients[i]
    BY <1>0, <1>5, <2>1 DEF RemoveClient, Client
  <2>3. asked' = asked
    BY <1>5 DEF RemoveClient
  <2>4. QED BY <2>1, <2>2, <2>3 DEF StoredWasAsked
<1>6. CASE UNCHANGED <<clients, asked>> /\ (rx' = rx \/ rx.op # "clear")
  BY <1>6 DEF StoredWasAsked
<1>7. QED
  BY <1>1, <1>2, <1>3, <1>4, <1>5, <1>6
     DEF Next, Receive, Forward, HandleDisconnect, TellBroker, Connected, Resubscribe,
         Disconnected, SessionLost, SessionBegins, vars, NoRequest

\* A slot never passes the subscriptions of one client on to another.
THEOREM ProxyStoredWasAsked == Spec => []StoredWasAsked
<1>1. Init => TypeInv
  BY InitType, ProxyAssumption
<1>2. Init => OneSlotPerClient /\ StoredWasAsked
  BY DEF Init, OneSlotPerClient, StoredWasAsked
<1>3. TypeInv /\ OneSlotPerClient /\ StoredWasAsked /\ [Next]_vars
         => (TypeInv /\ OneSlotPerClient /\ StoredWasAsked)'
  BY TypeStep, OneSlotStep, AskedStep, ProxyAssumption
<1>4. QED BY <1>1, <1>2, <1>3, PTL DEF Spec

-----------------------------------------------------------------------------
(* The broker has every subscription.                                       *)

\* What the broker has or had only grows while the session holds.
LEMMA CoverGrows ==
  ASSUME NEW T, up, Subscribe(T) \/ Unsubscribe(T)
  PROVE  /\ broker \cup taken \subseteq broker' \cup taken'
         /\ T \subseteq broker' \cup taken'
BY DEF Subscribe, Unsubscribe

\* What a step adds to a slot is under way, and what was under way when a step
\* ended it has been told to the broker.
LEMMA CoveredStep ==
  ASSUME ProxyAssumption, TypeInv, CoveredOrPending, [Next]_vars
  PROVE  CoveredOrPending'
<1>0. clients \in [Slot -> Client] /\ RequestOK /\ resub \in 0..MaxClients
  BY DEF TypeInv, TypeOK, Client, Subs
<1> DEFINE Told(i, t) == \/ t \in broker \cup taken
                         \/ rx.op = "subscribe" /\ rx.topic = t
                         \/ rx.op = "clear" /\ rx.slot = i
                         \/ resub # 0 /\ resub <= i
<1>1. SUFFICES ASSUME up', connected', NEW i \in Slot, clients'[i].connected,
                      NEW t \in Stored(clients'[i])
               PROVE  Told(i, t)'
  BY DEF CoveredOrPending
<1>2. up /\ connected /\ clients[i].connected /\ t \in Stored(clients[i]) => Told(i, t)
  BY DEF CoveredOrPending
<1> HIDE DEF Told
<1>3. ASSUME NEW m \in Mac, HandleConnect(m)
      PROVE  Told(i, t)'
  <2>1. PICK k \in Slot : /\ clients' = [clients EXCEPT ![k] = NewClient(k, m)]
                          /\ rx' = [op |-> "clear", slot |-> k, topic |-> NoTopic]
    BY <1>3 DEF HandleConnect, FreeSlots
  <2>2. CASE i = k
    BY <2>1, <2>2 DEF Told
  <2>3. CASE i # k
    <3>1. clients'[i] = clients[i]
      BY <1>0, <2>1, <2>3
    <3>2. QED BY <1>1, <1>2, <1>3, <3>1 DEF Told, HandleConnect, NoRequest
  <2>4. QED BY <2>2, <2>3
<1>4. ASSUME NEW m \in Mac, NEW f \in Topic, HandleSubscribe(m, f)
      PROVE  Told(i, t)'
  <2>1. PICK k \in FindClient(m) :
              /\ clients' = [clients EXCEPT ![k].subs = Store(clients[k].subs, f)]
              /\ rx' = [op |-> "subscribe", slot |-> k, topic |-> f]
    BY <1>4 DEF HandleSubscribe
  <2>2. /\ clients[i].connected
        /\ i # k => clients'[i].subs = clients[i].subs
        /\ i = k => clients'[i].subs = Store(clients[i].subs, f)
    BY <1>0, <1>1, <2>1 DEF FindClient, Client
  <2>3. ToSet(Store(clients[i].subs, f)) \subseteq ToSet(clients[i].subs) \cup {f}
    BY <1>0, StoreFacts DEF Client
  <2>4. t = f \/ t \in Stored(clients[i])
    BY <2>2, <2>3 DEF Stored
  <2>5. QED BY <1>1, <1>2, <1>4, <2>1, <2>2, <2>4 DEF Told, HandleSubscribe, NoRequest
<1>5. ASSUME NEW m \in Mac, NEW f \in Topic, HandleUnsubscribe(m, f)
      PROVE  Told(i, t)'
  <2>1. PICK k \in FindClient(m) :
              clients' = [clients EXCEPT ![k].subs = Blank(clients[k].subs, f)]
    BY <1>5 DEF HandleUnsubscribe
  <2>2. /\ clients[i].connected
        /\ i # k => clients'[i].subs = clients[i].subs
        /\ i = k => clients'[i].subs = Blank(clients[i].subs, f)
    BY <1>0, <1>1, <2>1 DEF FindClient, Client
  <2>3. ToSet(Blank(clients[i].subs, f)) \subseteq ToSet(clients[i].subs) \cup {NoTopic}
    BY <1>0, BlankFacts DEF Client
  <2>4. t \in Stored(clients[i])
    BY <2>2, <2>3 DEF Stored
  <2>5. QED BY <1>1, <1>2, <1>5, <2>2, <2>4 DEF Told, HandleUnsubscribe, NoRequest
<1>6. ASSUME NEW m \in Mac, HandleDisconnect(m)
      PROVE  Told(i, t)'
  <2>1. /\ up /\ connected /\ clients' = clients /\ resub' = resub /\ rx = NoRequest
        /\ broker \cup taken \subseteq broker' \cup taken'
    BY <1>1, <1>6, CoverGrows DEF HandleDisconnect
  <2>2. QED BY <1>1, <1>2, <2>1 DEF Told, NoRequest
<1>7. CASE ClearSlot
  <2>1. rx.slot \in Slot /\ rx.op = "clear"
    BY <1>0, <1>7 DEF ClearSlot, RequestOK
  <2>2. i # rx.slot
    <3>1. clients'[rx.slot].subs = << >>
      BY <1>0, <1>7, <2>1 DEF ClearSlot, ClearSubs, Client
    <3>2. QED BY <1>1, <3>1 DEF Stored, ToSet
  <2>3. clients'[i] = clients[i]
    BY <1>0, <1>7, <2>1, <2>2 DEF ClearSlot
  <2>4. QED BY <1>1, <1>2, <1>7, <2>1, <2>2, <2>3 DEF Told, ClearSlot
<1>8. CASE TellBroker
  <2>1. up /\ connected /\ clients' = clients /\ resub' = resub
    BY <1>1, <1>8 DEF TellBroker
  <2>2. /\ broker \cup taken \subseteq broker' \cup taken'
        /\ rx.topic \in broker' \cup taken'
    BY <1>8, <2>1, CoverGrows DEF TellBroker
  <2>3. QED BY <1>1, <1>2, <1>8, <2>1, <2>2 DEF Told, TellBroker
<1>9. CASE RemoveClient
  <2>1. rx.slot \in Slot /\ rx.op = "remove"
    BY <1>0, <1>9 DEF RemoveClient, RequestOK
  <2>2. clients'[i] = clients[i]
    BY <1>0, <1>1, <1>9, <2>1 DEF RemoveClient, Client
  <2>3. QED BY <1>1, <1>2, <1>9, <2>1, <2>2 DEF Told, RemoveClient
<1>10. CASE Connected
  BY <1>10 DEF Told, Connected, Slot
<1>11. CASE Resubscribe
  <2>1. /\ up /\ connected /\ clients' = clients /\ rx' = rx
        /\ resub \in Slot
    BY <1>0, <1>1, <1>11 DEF Resubscribe, Slot
  <2>2. /\ broker \cup taken \subseteq broker' \cup taken'
        /\ Again(resub) \subseteq broker' \cup taken'
    BY <1>11, <2>1, CoverGrows DEF Resubscribe
  <2>3. CASE i = resub
    <3>1. t \in Again(resub)
      BY <1>1, <2>1, <2>3 DEF Again
    <3>2. QED BY <2>2, <3>1 DEF Told
  <2>4. CASE i # resub /\ resub <= i
    <3>1. resub' # 0 /\ resub' <= i
      BY <1>11, <2>1, <2>4, ProxyAssumption DEF Resubscribe, Slot, ProxyAssumption
    <3>2. QED BY <3>1 DEF Told
  <2>5. CASE ~(resub <= i)
    BY <1>1, <1>2, <2>1, <2>2, <2>5 DEF Told
  <2>6. QED BY <2>3, <2>4, <2>5
<1>12. CASE Disconnected
  BY <1>1, <1>12 DEF Disconnected
<1>13. CASE SessionLost
  BY <1>1, <1>13 DEF SessionLost
<1>14. CASE SessionBegins
  BY <1>1, <1>14 DEF SessionBegins
<1>15. CASE UNCHANGED <<clients, connected, rx, resub, up, broker, taken>>
  BY <1>1, <1>2, <1>15 DEF Told
<1>16. QED
  BY <1>3, <1>4, <1>5, <1>6, <1>7, <1>8, <1>9, <1>10, <1>11, <1>12, <1>13, <1>14, <1>15
     DEF Next, Receive, Forward, vars

\* Whichever way the two tasks come together, no subscription of a client is lost
\* to the broker.
THEOREM ProxySubscribed == Spec => []SubscribedOrTaken
<1>1. Init => TypeInv /\ CoveredOrPending
  BY InitType, ProxyAssumption DEF Init, CoveredOrPending
<1>2. TypeInv /\ CoveredOrPending /\ [Next]_vars => (TypeInv /\ CoveredOrPending)'
  BY TypeStep, CoveredStep, ProxyAssumption
<1>3. CoveredOrPending => SubscribedOrTaken
  BY DEF CoveredOrPending, SubscribedOrTaken, NoRequest
<1>4. QED BY <1>1, <1>2, <1>3, PTL DEF Spec

-----------------------------------------------------------------------------
(* A message comes to every client that is subscribed to it.                *)

\* Nobody is subscribed to the empty topic of a loop that is over.
LEMMA NoHolders ==
  ASSUME ProxyAssumption, NEW cs \in [Slot -> Client]
  PROVE  Holders(cs, NoTopic) = {}
<1>1. ASSUME NEW i \in Slot, NEW f \in Stored(cs[i])
      PROVE  NoTopic \notin Covers[f]
  <2>1. f \in Topic
    BY StoredType
  <2>2. QED BY <2>1 DEF ProxyAssumption
<1>2. QED BY <1>1 DEF Holders

\* Passing on to the next slot leaves a slot that is owed the message ahead.
LEMMA NextSlotAhead ==
  ASSUME ProxyAssumption, TypeInv, fwd # NoMessage,
         NEW i \in Slot, fwd.slot <= i, i # fwd.slot
  PROVE  NextSlot.slot <= i /\ NextSlot.topic = fwd.topic /\ NextSlot # NoMessage
<1>1. /\ fwd \in [topic : Published \cup {NoTopic}, slot : 0..MaxClients, match : BOOLEAN]
      /\ fwd.slot \in Slot /\ fwd.topic \in Published /\ MaxClients \in Nat
  BY DEF TypeInv, TypeOK, LoopOK, ProxyAssumption
<1>2. fwd.slot # MaxClients
  BY <1>1 DEF Slot
<1>3. NextSlot = [topic |-> fwd.topic, slot |-> fwd.slot + 1, match |-> FALSE]
  BY <1>1, <1>2 DEF NextSlot
<1>4. QED BY <1>1, <1>3 DEF NoMessage, Slot, ProxyAssumption

LEMMA OwedStep ==
  ASSUME ProxyAssumption, TypeInv, OneSlotPerClient, OwedAhead, [Next]_vars
  PROVE  OwedAhead'
<1>0. /\ clients \in [Slot -> Client] /\ clients' \in [Slot -> Client]
      /\ fwd \in [topic : Published \cup {NoTopic}, slot : 0..MaxClients, match : BOOLEAN]
      /\ LoopOK /\ LoopOK'
  BY TypeStep DEF TypeInv, TypeOK, Client, Subs
<1>1. CASE UNCHANGED vars
  BY <1>1 DEF OwedAhead, ForwardedToAll, Holding, Stored, vars
<1>2. ASSUME Owe, fwd = NoMessage, fwd' = NoMessage
      PROVE  OwedAhead'
  <2>1. owed' \subseteq Holders(clients, NoTopic)
    BY <1>2 DEF Owe, NoMessage
  <2>2. QED BY <1>0, <1>2, <2>1, NoHolders DEF OwedAhead, ForwardedToAll
<1>3. ASSUME Owe, NEW t \in Published, MqttMessage(t), clients' = clients
      PROVE  OwedAhead'
  <2>1. fwd = NoMessage /\ fwd' = [topic |-> t, slot |-> 1, match |-> FALSE]
    BY <1>3 DEF MqttMessage
  <2>2. owed' \subseteq Holders(clients', t)
    BY <1>3, <2>1 DEF Owe
  <2>3. \A m \in owed' : \E i \in Slot : /\ 1 <= i /\ clients'[i].mac = m
                                         /\ Holding(i, t)'
    BY <2>2 DEF Holders, Holding, Slot, Stored
  <2>4. fwd' # NoMessage /\ fwd'.slot = 1 /\ fwd'.topic = t
    BY <2>1 DEF NoMessage
  <2>5. QED BY <2>3, <2>4 DEF OwedAhead, ForwardedToAll
<1>4. ASSUME Owe, fwd # NoMessage, fwd' = fwd
      PROVE  OwedAhead'
  <2>1. owed' \subseteq owed /\ owed' \subseteq Holders(clients', fwd.topic)
    BY <1>4 DEF Owe
  <2>2. SUFFICES ASSUME NEW m \in owed'
                 PROVE  \E i \in Slot : /\ fwd.slot <= i /\ clients'[i].mac = m
                                        /\ Holding(i, fwd.topic)'
    BY <1>4 DEF OwedAhead, ForwardedToAll, Holding
  <2>3. PICK j \in Slot : /\ clients'[j].connected /\ clients'[j].mac = m
                          /\ \E f \in Stored(clients'[j]) : fwd.topic \in Covers[f]
    BY <2>1 DEF Holders
  <2>4. PICK i \in Slot : /\ fwd.slot <= i /\ clients[i].mac = m
                          /\ Holding(i, fwd.topic)
    BY <1>4, <2>1 DEF OwedAhead
  <2>5. i = j
    BY <2>3, <2>4, OneSlotStep DEF Holding
  <2>6. QED BY <1>4, <2>3, <2>4, <2>5 DEF Holding, Stored
<1>5. ASSUME Owe, fwd # NoMessage, fwd' = NextSlot, clients' = clients,
             \A m \in owed' : ~\E i \in Slot : /\ i = fwd.slot /\ clients[i].mac = m
                                               /\ Holding(i, fwd.topic)
      PROVE  OwedAhead'
  <2>1. owed' \subseteq owed
    BY <1>5 DEF Owe
  <2>2. ASSUME NEW m \in owed'
        PROVE  /\ \E i \in Slot : /\ NextSlot.slot <= i /\ clients[i].mac = m
                                  /\ Holding(i, NextSlot.topic)
               /\ NextSlot # NoMessage
    <3>1. PICK i \in Slot : /\ fwd.slot <= i /\ clients[i].mac = m
                            /\ Holding(i, fwd.topic)
      BY <1>5, <2>1 DEF OwedAhead
    <3>2. i # fwd.slot
      BY <1>5, <3>1
    <3>3. QED BY <1>5, <3>1, <3>2, NextSlotAhead
  <2>3. QED BY <1>5, <2>2 DEF OwedAhead, ForwardedToAll, Holding, Stored
<1>6. ASSUME Owe, MatchClient, clients' = clients
      PROVE  OwedAhead'
  <2>1. fwd # NoMessage /\ ~fwd.match
    BY <1>6 DEF MatchClient
  <2>2. CASE ~Holding(fwd.slot, fwd.topic)
    <3>1. fwd' = NextSlot
      BY <1>6, <2>2 DEF MatchClient, Holding
    <3>2. QED BY <1>5, <1>6, <2>1, <2>2, <3>1
  <2>3. CASE Holding(fwd.slot, fwd.topic)
    <3>1. fwd' = [fwd EXCEPT !.match = TRUE]
      BY <1>6, <2>3 DEF MatchClient, Holding
    <3>2. fwd'.slot = fwd.slot /\ fwd'.topic = fwd.topic /\ fwd' # NoMessage
      BY <1>0, <3>1 DEF NoMessage
    <3>3. owed' \subseteq owed
      BY <1>6, <2>1 DEF Owe
    <3>4. QED BY <1>6, <2>1, <3>2, <3>3 DEF OwedAhead, ForwardedToAll, Holding, Stored
  <2>4. QED BY <2>2, <2>3
<1>7. ASSUME Owe, ForwardMessage, clients' = clients
      PROVE  OwedAhead'
  <2>1. fwd # NoMessage /\ fwd.match /\ fwd' = NextSlot
    BY <1>7 DEF ForwardMessage, AfterSend, NoMessage
  <2>2. fwd' # fwd
    <3>1. CASE fwd.slot = MaxClients
      BY <2>1, <3>1 DEF NextSlot
    <3>2. CASE fwd.slot # MaxClients
      <4>1. NextSlot = [fwd EXCEPT !.slot = fwd.slot + 1, !.match = FALSE]
        BY <3>2 DEF NextSlot
      <4>2. NextSlot.match = FALSE
        BY <1>0, <4>1
      <4>3. QED BY <2>1, <4>2
    <3>3. QED BY <3>1, <3>2
  <2>3. clients[fwd.slot].mac \notin owed'
    BY <1>7, <2>1, <2>2 DEF Owe, Sent
  <2>4. QED BY <1>5, <1>7, <2>1, <2>3
<1>8. ASSUME Owe, UNCHANGED fwd
      PROVE  OwedAhead'
  BY <1>2, <1>4, <1>8
<1>9. QED BY <1>1, <1>3, <1>6, <1>7, <1>8 DEF Next, Forward

\* When the loop on a message is over, every client that held a subscription to it
\* throughout was sent it.
THEOREM ProxyForwarded == Spec => []ForwardedToAll
<1>1. Init => TypeInv /\ OneSlotPerClient /\ OwedAhead
  BY InitType, ProxyAssumption DEF Init, OneSlotPerClient, OwedAhead, ForwardedToAll
<1>2. TypeInv /\ OneSlotPerClient /\ OwedAhead /\ [Next]_vars
         => (TypeInv /\ OneSlotPerClient /\ OwedAhead)'
  BY TypeStep, OneSlotStep, OwedStep, ProxyAssumption
<1>3. OwedAhead => ForwardedToAll
  BY DEF OwedAhead
<1>4. QED BY <1>1, <1>2, <1>3, PTL DEF Spec
=============================================================================
