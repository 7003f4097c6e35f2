-------------------------- MODULE ServiceDiscovery --------------------------
(***************************************************************************)
(* ServiceDiscovery.cpp: the services nodes register and announce, and the *)
(* table of one node that discovers them.  Entries of both tables are      *)
(* invalidated and never used again.                                       *)
(*                                                                         *)
(* The class builds and reads the field of ROUTE_ADV and handles replies;  *)
(* sending them is a TODO in the code.  The frames between the nodes are   *)
(* external: they arrive, or late, or not at all.                          *)
(***************************************************************************)
EXTENDS Integers, FiniteSets, Sequences

CONSTANTS
    Node,        \* the nodes that register services
    Name,        \* the names the application uses
    Cut,         \* a name as it is stored: its first 15 characters
    Port,
    NoNode,      \* no node: nothing was heard
    MaxServices, \* MAX_SERVICES
    MaxAdv,      \* how many services the buffer of an announcement holds
    Lifetime,    \* 120 s
    MaxLate      \* bound: announcements that are late

ASSUME ServiceAssumption ==
    /\ IsFiniteSet(Node) /\ NoNode \notin Node
    /\ \A n \in Name : n \in DOMAIN Cut /\ Cut[n] \in DOMAIN Cut /\ Cut[Cut[n]] = Cut[n]
    /\ {MaxServices, MaxAdv} \subseteq Nat \ {0} /\ {Lifetime, MaxLate} \subseteq Nat

VARIABLES
    local,      \* _localServices up to _localCount, of every node
    discovered, \* _discoveredServices up to _discoveredCount, of the node that
                \* discovers; an age instead of lastSeen
    late,       \* announcements in the air
    lates,      \* announcements that may still be late
    heard       \* (history) the last announcement or reply for each stored name

serviceVars == <<local, discovered, late, lates, heard>>

Stored == {Cut[n] : n \in Name}
Never == [node |-> NoNode, port |-> 0, age |-> 0]

\* What is left of an entry that is not valid: nothing reads the rest.
Invalid == [valid |-> FALSE]
Older(n) == IF n > Lifetime THEN n ELSE n + 1

-----------------------------------------------------------------------------
(* The nodes that offer services.                                          *)

\* One more entry, if there is room: entries are never given back.
Store(s, e) == IF Len(s) < MaxServices THEN Append(s, e) ELSE s

\* registerService: the same name again is another entry.
RegisterService(n, name, port) ==
    /\ Len(local[n]) < MaxServices
    /\ local' = [local EXCEPT ![n] = Store(@, [name |-> Cut[name], port |-> port, valid |-> TRUE])]
    /\ UNCHANGED <<discovered, late, lates, heard>>

\* The first valid entry of a name, which has to be the stored one.
First(s, name) ==
    {i \in DOMAIN s : s[i].valid /\ s[i].name = name /\
                      \A j \in 1..(i - 1) : ~(s[j].valid /\ s[j].name = name)}

\* unregisterService.
UnregisterService(n, name) ==
    /\ \E i \in First(local[n], name) : local' = [local EXCEPT ![n][i] = Invalid]
    /\ UNCHANGED <<discovered, late, lates, heard>>

\* The node is reset.
Restart(n) ==
    /\ local' = [local EXCEPT ![n] = << >>]
    /\ UNCHANGED <<discovered, late, lates, heard>>

\* serializeServices: the valid entries in their order, while there is room.
SerializeServices(s) ==
    LET out[i \in 0..Len(s)] ==
            IF i = 0 THEN << >>
            ELSE IF s[i].valid /\ Len(out[i - 1]) < MaxAdv THEN Append(out[i - 1], s[i])
            ELSE out[i - 1]
    IN  out[Len(s)]

-----------------------------------------------------------------------------
(* The node that discovers them.                                           *)

\* An entry as a reply writes it.
Finding(name, m, port) == [valid |-> TRUE, name |-> name, node |-> m, port |-> port, age |-> 0]

\* Fault: the provider stays the first one.
UpdatePort(e, m, port) == [e EXCEPT !.port = port, !.age = 0]

\* A known service, announced by m; its address is written and never compared.
UpdateEntry(e, m, port) == Finding(e.name, m, port)

\* handleServiceReply, in the table d.
Reply(d, m, name, port) ==
    LET found == First(d, name) IN
    IF found # {}
    THEN [i \in DOMAIN d |-> IF i \in found THEN UpdateEntry(d[i], m, port) ELSE d[i]]
    ELSE Store(d, Finding(Cut[name], m, port))

\* deserializeServices: each entry is handled as a reply.
Deserialize(d, m, adv) ==
    LET t[k \in 0..Len(adv)] ==
            IF k = 0 THEN d ELSE Reply(t[k - 1], m, adv[k].name, adv[k].port)
    IN  t[Len(adv)]

\* What was heard last, after a reply and after an announcement.
Hear(h, m, name, port) == [h EXCEPT ![Cut[name]] = [node |-> m, port |-> port, age |-> 0]]
HeardFrom(h, m, adv) ==
    LET last[k \in 0..Len(adv)] ==
            IF k = 0 THEN h ELSE Hear(last[k - 1], m, adv[k].name, adv[k].port)
    IN  last[Len(adv)]

\* An announcement of n arrives.
Announce(n) ==
    LET adv == SerializeServices(local[n]) IN
    /\ adv # << >>
    /\ \/ /\ discovered' = Deserialize(discovered, n, adv)
          /\ heard' = HeardFrom(heard, n, adv)
          /\ UNCHANGED <<late, lates>>
       \/ /\ lates > 0 /\ lates' = lates - 1
          /\ late' = late \cup {[from |-> n, adv |-> adv]}
          /\ UNCHANGED <<discovered, heard>>
    /\ UNCHANGED local

RecvLate(f) ==
    /\ discovered' = Deserialize(discovered, f.from, f.adv)
    /\ heard' = HeardFrom(heard, f.from, f.adv)
    /\ late' = late \ {f}
    /\ UNCHANGED <<local, lates>>

\* A query for name, which n has (handleServiceQuery), and its reply.
QueryService(n, name) ==
    /\ \E i \in First(local[n], name) :
          /\ discovered' = Reply(discovered, n, name, local[n][i].port)
          /\ heard' = Hear(heard, n, name, local[n][i].port)
    /\ UNCHANGED <<local, late, lates>>

\* Fault: a service expires when its lifetime is reached.
OverdueTooEarly(d) == {i \in DOMAIN d : d[i].valid /\ d[i].age >= Lifetime}

\* Fault: the loop starts at the second entry.
OverdueButFirst(d) == {i \in DOMAIN d : i > 1 /\ d[i].valid /\ d[i].age > Lifetime}

Overdue(d) == {i \in DOMAIN d : d[i].valid /\ d[i].age > Lifetime}

\* update.
Update ==
    /\ Overdue(discovered) # {}
    /\ discovered' = [i \in DOMAIN discovered |->
                        IF i \in Overdue(discovered) THEN Invalid
                        ELSE discovered[i]]
    /\ UNCHANGED <<local, late, lates, heard>>

Age ==
    /\ discovered' = [i \in DOMAIN discovered |->
                        IF discovered[i].valid THEN [discovered[i] EXCEPT !.age = Older(@)]
                        ELSE Invalid]
    /\ heard' = [s \in Stored |-> [heard[s] EXCEPT !.age = Older(@)]]
    /\ UNCHANGED <<local, late, lates>>

-----------------------------------------------------------------------------

ServiceInit ==
    /\ local = [n \in Node |-> << >>]
    /\ discovered = << >>
    /\ late = {} /\ lates = MaxLate
    /\ heard = [s \in Stored |-> Never]

ServiceNext ==
    \/ \E n \in Node, name \in Name, port \in Port : RegisterService(n, name, port)
    \/ \E n \in Node, name \in Name : UnregisterService(n, name) \/ QueryService(n, name)
    \/ \E n \in Node : Announce(n) \/ Restart(n)
    \/ \E f \in late : RecvLate(f)
    \/ Update \/ Age

\* update() is called, time passes, late announcements arrive.
ServiceSpec ==
    /\ ServiceInit /\ [][ServiceNext]_serviceVars
    /\ WF_serviceVars(Update) /\ WF_serviceVars(Age) /\ WF_serviceVars(\E f \in late : RecvLate(f))

-----------------------------------------------------------------------------
(* Properties.                                                             *)

\* The names that are stored as they are: the others are never found again.
Whole == {n \in Name : Cut[n] = n}

\* A service that is found is the one announced last under its name, whichever
\* nodes offer it and in whatever order entries expired and came back: one valid
\* entry, with the provider and the port heard last (ServiceDiscovery.cpp:51-73).
FoundIsLatest ==
    \A n \in Whole : \A i, j \in DOMAIN discovered :
        (discovered[i].valid /\ discovered[i].name = n) =>
            /\ discovered[i].node = heard[n].node /\ discovered[i].port = heard[n].port
            /\ (discovered[j].valid /\ discovered[j].name = n) => i = j

\* A service heard within its lifetime is found, as long as the table is not
\* used up by entries that are never given back (ServiceDiscovery.cpp:63).
HeardIsFound ==
    \A n \in Whole : heard[n].node # NoNode /\ heard[n].age <= Lifetime /\ Len(discovered) < MaxServices
        => First(discovered, n) # {}

\* A service nobody offers any more is found no more in the end, although late
\* announcements bring it back (ServiceDiscovery.cpp:132-141).
GoneInTheEnd ==
    \A s \in Stored :
        <>[](\A n \in Node : First(local[n], s) = {}) => <>[](First(discovered, s) = {})
=============================================================================
