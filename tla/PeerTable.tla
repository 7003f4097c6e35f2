------------------------------ MODULE PeerTable ------------------------------
(***************************************************************************)
(* PeerManager.cpp: the peers of a node in an open-addressing hash table   *)
(* with linear probing, in-place deletion and eviction of the least        *)
(* recently heard peer, and the loop of _checkPeerTimeouts that walks the  *)
(* table by index while it removes from it.                                *)
(*                                                                         *)
(* An operation of PeerManager is one action.  The loop is one action per  *)
(* iteration: the receive handlers run in another task, between two        *)
(* iterations.  routeCount is never written by the program, so evictLRU    *)
(* always takes its first pass and all peers qualify.  A battery node's    *)
(* beacons tell how long it sleeps, and it is given that much more time.   *)
(***************************************************************************)
EXTENDS Integers, FiniteSets

CONSTANTS
    Mac,        \* the MACs heard
    NoMac,      \* the zeroed MAC of an invalid entry
    Size,       \* MESH_MAX_PEERS
    Hash,       \* _hash, before the reduction modulo Size
    Timeout,    \* PEER_TIMEOUT_NORMAL_MS
    Sleep,      \* the sleep interval a MAC's beacons declare, 0 for none
    Factor,     \* PEER_TIMEOUT_BATTERY_FACTOR
    Margin,     \* 60 s
    BatteryMin, \* PEER_TIMEOUT_BATTERY_MIN_MS
    MaxClock,   \* bound: the clock stops there
    Word        \* millis() values, 2^32 in the code; more than MaxClock

Pos == 0..(Size - 1)

ASSUME PeerTableAssumption ==
    /\ NoMac \notin Mac
    /\ Size \in Nat \ {0}
    /\ Hash \in [Mac -> Nat]
    /\ {Timeout, Factor, Margin, BatteryMin} \subseteq Nat
    /\ Sleep \in [Mac -> Nat]
    /\ MaxClock \in Nat
    /\ Word \in Nat /\ Word > MaxClock

VARIABLES
    table,  \* _peers
    count,  \* _count
    clock,  \* millis()
    sweep   \* _checkPeerTimeouts: index and "now" of the loop

vars == <<table, count, clock, sweep>>

-----------------------------------------------------------------------------
(* The table.                                                              *)

NoEntry == [mac |-> NoMac, seen |-> 0, est |-> FALSE, sleep |-> 0]
Entries == [mac : Mac, seen : 0..MaxClock, est : BOOLEAN, sleep : {Sleep[m] : m \in Mac} \cup {0}]

Valid(t, p) == t[p].mac # NoMac

\* _hash, and how many positions are probed for m before p.
Home(m) == Hash[m] % Size
Distance(m, p) == (p - Home(m)) % Size
Before(m, p) == {q \in Pos : Distance(m, q) < Distance(m, p)}

\* _probe: the position of m, if no free one comes before it.
Probe(t, m) ==
    {p \in Pos : t[p].mac = m /\ \A q \in Before(m, p) : Valid(t, q) /\ t[q].mac # m}

\* The first free position for m, none if the table is full, and the table
\* with e there.
Free(t, m) == {p \in Pos : ~Valid(t, p) /\ \A q \in Before(m, p) : Valid(t, q)}
Insert(t, m, e) ==
    IF Free(t, m) = {} THEN t ELSE [t EXCEPT ![CHOOSE p \in Free(t, m) : TRUE] = e]

\* One iteration of the loop in removePeer: the entry is taken out and
\* inserted again, until a free position is met.
Rehash(acc, p) ==
    IF acc.done \/ ~Valid(acc.t, p)
    THEN [acc EXCEPT !.done = TRUE]
    ELSE [acc EXCEPT !.t = Insert([acc.t EXCEPT ![p] = NoEntry], acc.t[p].mac, acc.t[p])]

\* bound: positions the loop is followed for.  A full table takes up to
\* Size * (Size - 1) + 1, several times round.
MaxRehash == Size * Size

\* The table after the loop: one, in a set as the positions above.
Removal(t, p) ==
    LET pass[k \in 0..MaxRehash] ==
            IF k = 0 THEN {[t |-> [t EXCEPT ![p] = NoEntry], done |-> FALSE]}
            ELSE {Rehash(acc, (p + k) % Size) : acc \in pass[k - 1]}
    IN  pass[MaxRehash]

\* Fault: the entry is cleared and its cluster left as it is.
ClearOnly(t, p) == {[t EXCEPT ![p] = NoEntry]}

\* removePeer, at a position.
Clear(t, p) == {acc.t : acc \in Removal(t, p)}

\* Fault: the first valid entry is evicted.
AnyVictim(t) == {p \in Pos : Valid(t, p) /\ \A q \in Pos : Valid(t, q) => p <= q}

\* evictLRU: the first of the entries with the smallest lastSeen.
Victim(t) ==
    {p \in Pos : Valid(t, p) /\ \A q \in Pos : Valid(t, q) =>
        t[p].seen < t[q].seen \/ (t[p].seen = t[q].seen /\ p <= q)}

\* getPeerByIndex: the position of the valid entry with i valid ones before it.
ByIndex(t, i) ==
    {p \in Pos : Valid(t, p) /\ Cardinality({q \in Pos : q < p /\ Valid(t, q)}) = i}

-----------------------------------------------------------------------------
(* The callers.                                                            *)

\* addPeer, then setLinkKey (which finds the entry again by its MAC).
AddPeer(m) ==
    LET e == [mac |-> m, seen |-> clock, est |-> TRUE, sleep |-> 0] IN
    /\ \/ /\ Probe(table, m) # {}
          /\ \E p \in Probe(table, m) :
                table' = [table EXCEPT ![p].seen = clock, ![p].est = TRUE]
          /\ UNCHANGED count
       \/ /\ Probe(table, m) = {} /\ Free(table, m) # {}
          /\ table' = Insert(table, m, e)
          /\ count' = count + 1
       \/ /\ Probe(table, m) = {} /\ Free(table, m) = {}
          /\ \E v \in Victim(table) : \E t \in Clear(table, v) : table' = Insert(t, m, e)
          /\ UNCHANGED count
    /\ UNCHANGED <<clock, sweep>>

\* findPeer, then lastSeen: a ROUTE_ADV or DATA of m.
HearPeer(m) ==
    /\ \E p \in Probe(table, m) : table' = [table EXCEPT ![p].seen = clock]
    /\ UNCHANGED <<count, clock, sweep>>

\* A beacon of m tells its sleep interval as well.
HearBeacon(m) ==
    /\ \E p \in Probe(table, m) :
          table' = [table EXCEPT ![p].seen = clock, ![p].sleep = Sleep[m]]
    /\ UNCHANGED <<count, clock, sweep>>

\* Fault: _count is not decremented.
RemoveUncounted(m) ==
    /\ \E p \in Probe(table, m) : table' \in Clear(table, p)
    /\ UNCHANGED <<count, clock, sweep>>

\* removePeer, from _handleRouteWithdraw.
RemovePeer(m) ==
    /\ \E p \in Probe(table, m) : table' \in Clear(table, p)
    /\ count' = count - 1
    /\ UNCHANGED <<clock, sweep>>

\* _rotateEpoch walks the table by index.
RotateEpoch ==
    /\ table' = [p \in Pos |-> IF \E i \in 0..(count - 1) : p \in ByIndex(table, i)
                               THEN [table[p] EXCEPT !.est = FALSE]
                               ELSE table[p]]
    /\ UNCHANGED <<count, clock, sweep>>

\* now - lastSeen in a Word; it wraps if the peer was heard after "now".
Elapsed(now, seen) == (now - seen) % Word

\* How long a peer may be silent.
Limit(e) ==
    LET wake == e.sleep * Factor + Margin
    IN  IF e.sleep = 0 THEN Timeout ELSE IF wake < BatteryMin THEN BatteryMin ELSE wake

Silent(now, e) == Elapsed(now, e.seen) > Limit(e)

\* Fault: the first iteration is for the last peer but one.
SweepFromLastButOne ==
    /\ sweep.i = -1
    /\ sweep' = [i |-> IF count > 1 THEN count - 2 ELSE -1, now |-> clock]
    /\ UNCHANGED <<table, count, clock>>

\* _checkPeerTimeouts begins: now and the number of peers are read.
SweepBegin ==
    /\ sweep.i = -1
    /\ sweep' = [i |-> count - 1, now |-> clock]
    /\ UNCHANGED <<table, count, clock>>

\* One iteration, from the last index down.
SweepStep ==
    /\ sweep.i >= 0
    /\ \/ \E p \in ByIndex(table, sweep.i) :
              /\ Silent(sweep.now, table[p])
              /\ table' \in Clear(table, p)
              /\ count' = count - 1
       \/ /\ \A p \in ByIndex(table, sweep.i) : ~Silent(sweep.now, table[p])
          /\ UNCHANGED <<table, count>>
    /\ sweep' = [sweep EXCEPT !.i = @ - 1]
    /\ UNCHANGED clock

Tick ==
    /\ clock < MaxClock
    /\ clock' = clock + 1
    /\ UNCHANGED <<table, count, sweep>>

-----------------------------------------------------------------------------

Init ==
    /\ table = [p \in Pos |-> NoEntry]
    /\ count = 0
    /\ clock = 0
    /\ sweep = [i |-> -1, now |-> 0]

Handler == \E m \in Mac : AddPeer(m) \/ HearPeer(m) \/ HearBeacon(m) \/ RemovePeer(m)

Next ==
    \/ Handler
    \/ RotateEpoch
    \/ SweepBegin
    \/ SweepStep
    \/ Tick

\* loop() is called again and again.
Spec == Init /\ [][Next]_vars /\ WF_vars(SweepBegin) /\ WF_vars(SweepStep)

-----------------------------------------------------------------------------
(* Properties.                                                             *)

\* Every variable keeps its type.
TypeOK ==
    /\ table \in [Pos -> Entries \cup {NoEntry}]
    /\ count \in 0..Size
    /\ clock \in 0..MaxClock
    /\ sweep \in [i : -1..(Size - 1), now : 0..MaxClock]

\* Deleting in place and evicting never hide a peer from _probe or leave it
\* twice in the table, and _count, which bounds the loops over the peers,
\* stays the number of entries (PeerManager.cpp:64-92).
EveryPeerFound ==
    /\ \A p \in Pos : Valid(table, p) => Probe(table, table[p].mac) = {p}
    /\ count = Cardinality({p \in Pos : Valid(table, p)})

\* The table is a set of peers to its callers, by what findPeer finds.
Found == {m \in {table[p].mac : p \in Pos} \ {NoMac} : Probe(table, m) # {}}
Peers == [m \in Found |-> LET p == CHOOSE q \in Pos : table[q].mac = m
                          IN  [seen |-> table[p].seen, est |-> table[p].est]]
Abstract == INSTANCE PeerSet WITH MaxPeers <- Size, peers <- Peers

\* Every operation of PeerManager does what PeerSet says of it: the callers
\* see no more of the rehashing than that the peer they named, or the one
\* heard longest ago, is gone.
ImplementsPeerSet == Abstract!Spec

\* The sweep goes down by index over a table that rehashes under it and can
\* miss a peer; once no peer is heard any more, every one that is silent too
\* long is gone all the same, in a later sweep (MeshNetwork.cpp:975-993).
Heard == {<<table[p].mac, table[p].seen>> : p \in Pos}
SilentPeersLeave ==
    <>[][Heard' \subseteq Heard]_vars =>
        <>[](\A m \in Mac : \A p \in Probe(table, m) : ~Silent(clock, table[p]))
=============================================================================
