----------------------------- MODULE ProxyHandler -----------------------------
(***************************************************************************)
(* ProxyHandler.cpp: the MQTT proxy of an ESP32 node for ESP8266 clients.  *)
(* The PROXY frames of the clients are handled in the task that receives   *)
(* frames, the events of the MQTT client in esp_mqtt's own task, and       *)
(* nothing locks the table of clients they share (ProxyHandler.cpp:82-85): *)
(* a handler that changes the table and then talks to the broker is two    *)
(* actions, as is the one that fills a slot, and the loops over the slots  *)
(* that subscribe again and that forward a message are one action or two   *)
(* per client.                                                             *)
(*                                                                         *)
(* The broker is external: it forgets the subscriptions of a session that  *)
(* ends, and delivers any message the proxy is subscribed to.  A client's  *)
(* own messages, which the proxy publishes, change no state and are left   *)
(* out.                                                                    *)
(***************************************************************************)
EXTENDS Integers, FiniteSets, Sequences, SequencesExt

CONSTANTS
    Mac,        \* the clients
    NoMac,      \* the zeroed MAC of a slot never used
    Topic,
    NoTopic,    \* the empty string of a subscription given up
    Published,  \* the topics of messages
    Covers,     \* the published topics a subscription is for: itself, or more with #
    MaxClients, \* PROXY_MAX_CLIENTS
    MaxSubs     \* PROXY_MAX_SUBS_PER_CLIENT

ASSUME ProxyAssumption ==
    /\ NoMac \notin Mac /\ NoTopic \notin Topic
    /\ NoTopic \notin Published /\ Covers \in [Topic -> SUBSET Published]
    /\ MaxClients \in Nat \ {0} /\ MaxSubs \in Nat \ {0}

VARIABLES
    clients,    \* _clients: [mac, connected, subs]
    connected,  \* _mqttConnected
    rx,         \* what the receiving task has still to tell the broker
    resub,      \* the next slot of the loop on MQTT_EVENT_CONNECTED, 0 if none
    fwd,        \* the loop on MQTT_EVENT_DATA: its topic, slot, and if that matched
    up,         \* (broker) the session holds
    broker,     \* (broker) its subscriptions
    taken,      \* (history) topics the proxy unsubscribed and not subscribed since
    asked,      \* (history) what each client subscribed to in its slot
    owed        \* (history) the clients that have held a subscription to the
                \* message since the loop began and were not sent it

vars == <<clients, connected, rx, resub, fwd, up, broker, taken, asked, owed>>

Slot == 1..MaxClients
NoMessage == [topic |-> NoTopic, slot |-> 0, match |-> FALSE]
NoRequest == [op |-> "none", slot |-> 0, topic |-> NoTopic]

-----------------------------------------------------------------------------
(* The table of clients.                                                   *)

\* _findClient.
FindClient(m) == {i \in Slot : clients[i].connected /\ clients[i].mac = m}

\* A slot for a new client, which holds the subscriptions of the last one ...
NewClient(i, m) == [clients[i] EXCEPT !.mac = m, !.connected = TRUE]

\* Fault: they stay.
KeepSubs(i) == clients[i]

\* ... until they are cleared.
ClearSubs(i) == [clients[i] EXCEPT !.subs = << >>]

\* Fault: a client that connects again gets another slot.
AddAnew(m) == {i \in Slot : ~clients[i].connected}

\* _addClient: where a slot can be found for a client not in the table.
FreeSlots(m) == IF FindClient(m) # {} THEN {} ELSE {i \in Slot : ~clients[i].connected}

\* Fault: no limit.
StoreAll(subs, t) == Append(subs, t)

\* The subscription is stored if there is room.
Store(subs, t) == IF Len(subs) < MaxSubs THEN Append(subs, t) ELSE subs

\* The first entry of the topic is blanked; the entries are never closed up.
Blank(subs, t) ==
    IF Contains(subs, t)
    THEN [subs EXCEPT ![SelectInSeq(subs, LAMBDA s : s = t)] = NoTopic]
    ELSE subs

\* The topics a slot's client is subscribed to.
Stored(c) == ToSet(c.subs) \ {NoTopic}

-----------------------------------------------------------------------------
(* The broker.                                                             *)

\* esp_mqtt_client_subscribe and _unsubscribe fail without a session, and the
\* proxy does not look at what they return.
Subscribe(T) ==
    /\ broker' = IF up THEN broker \cup T ELSE broker
    /\ taken' = IF up THEN taken \ T ELSE taken

Unsubscribe(T) ==
    /\ broker' = IF up THEN broker \ T ELSE broker
    /\ taken' = IF up THEN taken \cup T ELSE taken

-----------------------------------------------------------------------------
(* The receiving task: handleProxyFrame.                                   *)

\* _handleConnect: nothing changes for a client in the table, or if it is full.
HandleConnect(m) ==
    /\ rx = NoRequest
    /\ \E i \in FreeSlots(m) :
          /\ \A j \in FreeSlots(m) : i <= j
          /\ clients' = [clients EXCEPT ![i] = NewClient(i, m)]
          /\ rx' = [op |-> "clear", slot |-> i, topic |-> NoTopic]
    /\ asked' = [asked EXCEPT ![m] = {}]
    /\ UNCHANGED <<connected, resub, up, broker, taken>>

ClearSlot ==
    /\ rx.op = "clear"
    /\ clients' = [clients EXCEPT ![rx.slot] = ClearSubs(rx.slot)]
    /\ rx' = NoRequest
    /\ UNCHANGED <<connected, resub, up, broker, taken, asked>>

\* _handleSubscribe stores the topic ...
HandleSubscribe(m, t) ==
    /\ rx = NoRequest
    /\ \E i \in FindClient(m) :
          /\ clients' = [clients EXCEPT ![i].subs = Store(@, t)]
          /\ rx' = [op |-> "subscribe", slot |-> i, topic |-> t]
    /\ asked' = [asked EXCEPT ![m] = @ \cup {t}]
    /\ UNCHANGED <<connected, resub, up, broker, taken>>

\* ... and _handleUnsubscribe blanks it, before the broker is told.
HandleUnsubscribe(m, t) ==
    /\ rx = NoRequest
    /\ \E i \in FindClient(m) :
          /\ clients' = [clients EXCEPT ![i].subs = Blank(@, t)]
          /\ rx' = [op |-> "unsubscribe", slot |-> i, topic |-> t]
    /\ UNCHANGED <<connected, resub, up, broker, taken, asked>>

TellBroker ==
    /\ rx.op \in {"subscribe", "unsubscribe"}
    /\ \/ rx.op = "subscribe" /\ connected /\ Subscribe({rx.topic})
       \/ rx.op = "unsubscribe" /\ connected /\ Unsubscribe({rx.topic})
       \/ ~connected /\ UNCHANGED <<broker, taken>>
    /\ rx' = NoRequest
    /\ UNCHANGED <<clients, connected, resub, up, asked>>

\* _handleDisconnect: the client's topics are unsubscribed ...
HandleDisconnect(m) ==
    /\ rx = NoRequest
    /\ \E i \in FindClient(m) :
          /\ IF connected THEN Unsubscribe(Stored(clients[i])) ELSE UNCHANGED <<broker, taken>>
          /\ rx' = [op |-> "remove", slot |-> i, topic |-> NoTopic]
    /\ UNCHANGED <<clients, connected, resub, up, asked>>

\* ... and then the slot is given up (_removeClient).
RemoveClient ==
    /\ rx.op = "remove"
    /\ clients' = [clients EXCEPT ![rx.slot].connected = FALSE]
    /\ rx' = NoRequest
    /\ UNCHANGED <<connected, resub, up, broker, taken, asked>>

-----------------------------------------------------------------------------
(* The MQTT client's task: _mqttEventHandler.                              *)

\* MQTT_EVENT_CONNECTED.
Connected ==
    /\ up /\ ~connected /\ fwd = NoMessage
    /\ connected' = TRUE
    /\ resub' = 1
    /\ UNCHANGED <<clients, rx, up, broker, taken, asked>>

\* Fault: only the first subscription is made again.
FirstTopic(i) == IF clients[i].subs = << >> THEN {} ELSE {Head(clients[i].subs)} \ {NoTopic}

\* What the loop subscribes to for a slot.
Again(i) == IF clients[i].connected THEN Stored(clients[i]) ELSE {}

\* One client of the loop that subscribes again.
Resubscribe ==
    /\ resub # 0
    /\ Subscribe(Again(resub))
    /\ resub' = IF resub = MaxClients THEN 0 ELSE resub + 1
    /\ UNCHANGED <<clients, connected, rx, up, asked>>

\* MQTT_EVENT_DISCONNECTED, after the handler of an earlier event returned.
Disconnected ==
    /\ ~up /\ connected /\ resub = 0 /\ fwd = NoMessage
    /\ connected' = FALSE
    /\ UNCHANGED <<clients, rx, resub, up, broker, taken, asked>>

\* MQTT_EVENT_DATA: a message the proxy is subscribed to.
MqttMessage(t) ==
    /\ up /\ connected /\ resub = 0 /\ fwd = NoMessage
    /\ \E f \in broker : t \in Covers[f]
    /\ fwd' = [topic |-> t, slot |-> 1, match |-> FALSE]

\* Fault: the loop ends with the first client that matches.
FirstOnly == NoMessage

\* The next client of the loop.
NextSlot == IF fwd.slot = MaxClients THEN NoMessage
            ELSE [fwd EXCEPT !.slot = @ + 1, !.match = FALSE]

\* A client of the loop in _onMqttMessage: it is compared ...
MatchClient ==
    /\ fwd # NoMessage /\ ~fwd.match
    /\ fwd' = IF clients[fwd.slot].connected /\ \E f \in Stored(clients[fwd.slot]) : fwd.topic \in Covers[f]
              THEN [fwd EXCEPT !.match = TRUE]
              ELSE NextSlot

\* After a client was sent the message.
AfterSend == NextSlot

\* ... and then the slot's MAC is sent the message (_sendProxyMessage).
ForwardMessage ==
    /\ fwd.match
    /\ fwd' = AfterSend

\* The session with the broker ends, and a new one begins.
SessionLost ==
    /\ up
    /\ up' = FALSE
    /\ broker' = {}
    /\ taken' = {}
    /\ UNCHANGED <<clients, connected, rx, resub, asked>>

SessionBegins ==
    /\ ~up /\ ~connected
    /\ up' = TRUE
    /\ UNCHANGED <<clients, connected, rx, resub, broker, taken, asked>>

-----------------------------------------------------------------------------

Init ==
    /\ clients = [i \in Slot |-> [mac |-> NoMac, connected |-> FALSE, subs |-> << >>]]
    /\ connected = FALSE
    /\ rx = NoRequest
    /\ resub = 0
    /\ up = FALSE
    /\ broker = {}
    /\ taken = {}
    /\ asked = [m \in Mac |-> {}]
    /\ fwd = NoMessage /\ owed = {}

\* Who holds a subscription to t, and who still has to be sent the message.
Holders(cs, t) == {cs[i].mac : i \in {i \in Slot :
                      cs[i].connected /\ \E f \in Stored(cs[i]) : t \in Covers[f]}}
Sent == IF fwd.match /\ fwd' # fwd THEN {clients[fwd.slot].mac} ELSE {}
Owe ==
    LET begins == fwd = NoMessage
        t == IF begins THEN fwd'.topic ELSE fwd.topic
    IN  owed' = (IF begins THEN Holders(clients, t) ELSE owed \ Sent) \cap Holders(clients', t)

Receive ==
    \/ \E m \in Mac : HandleConnect(m) \/ HandleDisconnect(m)
    \/ \E m \in Mac, t \in Topic : HandleSubscribe(m, t) \/ HandleUnsubscribe(m, t)
    \/ ClearSlot \/ TellBroker \/ RemoveClient

Forward == (\E t \in Published : MqttMessage(t)) \/ MatchClient \/ ForwardMessage

Next ==
    /\ \/ (Receive \/ Connected \/ Resubscribe \/ Disconnected) /\ UNCHANGED fwd
       \/ (SessionLost \/ SessionBegins) /\ UNCHANGED fwd
       \/ Forward /\ UNCHANGED <<clients, connected, rx, resub, up, broker, taken, asked>>
    /\ Owe

Spec == Init /\ [][Next]_vars

-----------------------------------------------------------------------------
(* Properties.                                                             *)

\* Every variable keeps its type.
TypeOK ==
    /\ clients \in [Slot -> [mac : Mac \cup {NoMac}, connected : BOOLEAN,
                             subs : SeqOf(Topic \cup {NoTopic}, MaxSubs)]]
    /\ connected \in BOOLEAN /\ up \in BOOLEAN
    /\ rx \in [op : {"none", "clear", "subscribe", "unsubscribe", "remove"}, slot : 0..MaxClients,
               topic : Topic \cup {NoTopic}]
    /\ resub \in 0..MaxClients
    /\ broker \subseteq Topic /\ taken \subseteq Topic
    /\ asked \in [Mac -> SUBSET Topic] /\ owed \subseteq Mac
    /\ fwd \in [topic : Published \cup {NoTopic}, slot : 0..MaxClients, match : BOOLEAN]

\* A client that connects again, which the ESP8266 does without disconnecting,
\* keeps its one slot (ProxyHandler.cpp:199-202).
OneSlotPerClient ==
    \A i, j \in Slot :
        clients[i].connected /\ clients[j].connected /\ clients[i].mac = clients[j].mac => i = j

\* Once a client has its slot, what the slot holds it subscribed to since, and
\* no earlier client (ProxyHandler.cpp:207-211).
StoredWasAsked ==
    \A i \in Slot : clients[i].connected /\ rx # [op |-> "clear", slot |-> i, topic |-> NoTopic]
        => Stored(clients[i]) \subseteq asked[clients[i].mac]

\* A message that fits a frame is sent to every client that is subscribed to it
\* from when it comes to the end of the loop, whoever gets the other slots
\* meanwhile (ProxyHandler.cpp:346-372).
ForwardedToAll == fwd = NoMessage => owed = {}

\* When no handler is under way and the session holds, the broker has the topics
\* of every client, whichever way the two tasks came together, but for those
\* that were unsubscribed since, by this client or another
\* (ProxyHandler.cpp:91-105, 302-311).
SubscribedOrTaken ==
    (up /\ connected /\ resub = 0 /\ rx = NoRequest) =>
        \A i \in Slot : clients[i].connected => Stored(clients[i]) \subseteq broker \cup taken
=============================================================================
